---- MODULE Spec2Model ----
(***************************************************************************)
(* A model of the Amazon Q -> Claude gateway: the SSE stream handler       *)
(* (src/amazonq/streaming.py), the upstream client's resource lifecycle    *)
(* (src/amazonq/client.py), the credential cache (src/api/middleware.py)   *)
(* and the event-stream frame decoder (src/amazonq/parser.py).             *)
(*                                                                         *)
(* Python strings are sequences of one-character strings, Python None is   *)
(* the string "None" (or a record of "None" fields where a dict is         *)
(* expected), bytes are sequences of numbers 0..255.                       *)
(***************************************************************************)
EXTENDS Integers, Sequences, FiniteSets, TLC

VARIABLES
    \* ---- ClaudeStreamHandler (streaming.py) ----
    handler,        \* the fields of one ClaudeStreamHandler
    sse,            \* the SSE events the handler has yielded, in order
    finished,       \* finish() has run
    handled,        \* the upstream events handed to handle_event, in order
    \* ---- send_chat_request (client.py) ----
    call_pc,        \* the call: "ready", "returned" or "raised"
    local_client,   \* local_client: the client was created inside the call
    stream,         \* the stream argument
    resp,           \* the upstream response: status_code (0: no response), is_closed
    response_consumed,
    has_content,    \* tracker.has_content
    close_calls,    \* how often resp.aclose() and client.aclose() were invoked
    event_generator,\* the generator event_generator() of claude_messages
    safe_iter,      \* the generator _safe_iter_events() (event_iter)
    iter_events,    \* the generator _iter_events()
    exit_path,      \* how the call or its iterator ended
    yielded,        \* the number of (event_type, payload) items yielded to the caller
    error,          \* the exception send_chat_request raised, NoError if none
    \* ---- credential cache (middleware.py) ----
    TOKEN_MAP,      \* hash -> {accessToken, refreshToken, clientId, clientSecret, lastRefresh}
    req,            \* per worker: the request it is serving (auth_middleware, claude_messages)
    sweep,          \* the refresh_all_tokens coroutine
    oidc_calls,     \* the token-refresh calls issued so far
    oidc_requests,  \* the credentials each token-refresh call was sent with, by call number
    started,        \* the number of auth_middleware and refresh_all_tokens calls so far
    outcome,        \* the request that ended last: its token and what it got
    hits,           \* per token: the access tokens its last two cache hits returned,
                    \* of the hits since the last step of a sweep
    \* ---- EventStreamParser.parse_stream (parser.py) ----
    byte_stream,    \* the bytes of the upstream body that were not delivered yet
    delivered,      \* the bytes delivered so far, over all chunks
    buffer,         \* buffer
    messages,       \* the messages parse_stream has yielded, in order
    parser_pc,      \* "start", "reading", "looping" (the while loop never ends), "done"
    origin,         \* what the body was made of: frames encoded from pairs, or other bytes
    \* ---- request converter (converter.py): its functions keep no state, ----
    \* ---- the model holds the last call made                            ----
    converter_call, \* "none", or the name of the function called
    converter_arg,  \* the message list or the request the call was given
    converter_ret,  \* what the call returned, or Raised
    \* ---- _parse_bearer_token (middleware.py), called on its own ----
    bearer_arg,     \* the token of the last call, NoneStr before any call
    bearer_ret      \* the (client_id, client_secret, refresh_token) it returned

streamVars == <<handler, sse, finished, handled>>

clientVars == <<call_pc, local_client, stream, resp, response_consumed, has_content,
                close_calls, event_generator, safe_iter, iter_events, exit_path, yielded,
                error>>

authVars == <<TOKEN_MAP, req, sweep, oidc_calls, oidc_requests, started, outcome, hits>>

parserVars == <<byte_stream, delivered, buffer, messages, parser_pc, origin>>

converterVars == <<converter_call, converter_arg, converter_ret>>

bearerVars == <<bearer_arg, bearer_ret>>

vars == <<handler, sse, finished, handled,
          call_pc, local_client, stream, resp, response_consumed, has_content,
          close_calls, event_generator, safe_iter, iter_events, exit_path, yielded,
          error,
          TOKEN_MAP, req, sweep, oidc_calls, oidc_requests, started, outcome, hits,
          byte_stream, delivered, buffer, messages, parser_pc, origin,
          converter_call, converter_arg, converter_ret,
          bearer_arg, bearer_ret>>

\* what the actions of one component leave alone
notStreamVars == <<clientVars, authVars, parserVars, converterVars, bearerVars>>
notClientVars == <<streamVars, authVars, parserVars, converterVars, bearerVars>>
notAuthVars == <<streamVars, clientVars, parserVars, converterVars, bearerVars>>
notParserVars == <<streamVars, clientVars, authVars, converterVars, bearerVars>>
notConverterVars == <<streamVars, clientVars, authVars, parserVars, bearerVars>>
notBearerVars == <<streamVars, clientVars, authVars, parserVars, converterVars>>

(***************************************************************************)
(* Bounds                                                                  *)
(***************************************************************************)
MaxEvents == 4
MaxItems == 4
MaxCalls == 4
MaxFrames == 2
MaxChunk == 3

None == "None"

Max(a, b) == IF a >= b THEN a ELSE b

RECURSIVE Flatten(_)
\* "".join(list_of_strings)
Flatten(ss) == IF ss = <<>> THEN <<>> ELSE Head(ss) \o Flatten(Tail(ss))

(***************************************************************************)
(* SSE builders (parser.py).  One record per SSE event; the fields that an *)
(* event does not carry hold "" / <<>> / -1.                               *)
(***************************************************************************)
SseEvent(type, index, block, delta, text, id, name, tokens) ==
    [type |-> type, index |-> index, block |-> block, delta |-> delta,
     text |-> text, id |-> id, name |-> name, tokens |-> tokens]

build_message_start(conversation_id) ==
    SseEvent("message_start", -1, "", "", <<>>, conversation_id, "", 0)

build_ping == SseEvent("ping", -1, "", "", <<>>, "", "", 0)

build_content_block_start(index, block_type) ==
    SseEvent("content_block_start", index, block_type, "", <<>>, "", "", 0)

build_content_block_delta(index, text) ==
    SseEvent("content_block_delta", index, "", "text_delta", text, "", "", 0)

build_content_block_stop(index) ==
    SseEvent("content_block_stop", index, "", "", <<>>, "", "", 0)

build_tool_use_start(index, tool_use_id, tool_name) ==
    SseEvent("content_block_start", index, "tool_use", "", <<>>, tool_use_id, tool_name, 0)

build_tool_use_input_delta(index, input_json_delta) ==
    SseEvent("content_block_delta", index, "", "input_json_delta", input_json_delta, "", "", 0)

\* build_message_stop returns the message_delta and the message_stop events
\* concatenated in one string: two SSE events, in this order.
build_message_stop(output_tokens) ==
    << SseEvent("message_delta", -1, "", "", <<>>, "", "", output_tokens),
       SseEvent("message_stop", -1, "", "", <<>>, "", "", 0) >>

(***************************************************************************)
(* Upstream events: (event_type, payload)                                  *)
(***************************************************************************)
\* payload.get("input", {}): absent, a string, or a dict
NoInput == [t |-> "absent", s |-> <<>>]
StrInput(s) == [t |-> "str", s |-> s]
\* a dict input, with the text json.dumps gives for it
DictInput(s) == [t |-> "dict", s |-> s]

\* json.dumps({"a": 1}, ensure_ascii=False)
DumpedDict == <<"{", "\"", "a", "\"", ":", " ", "1", "}">>

\* Python truthiness of payload.get("input", {}): "" and {} are falsy
InputTruthy(inp) == inp.t # "absent" /\ inp.s # <<>>

ToolPayload(id, name, inp, stop) ==
    [toolUseId |-> id, name |-> name, input |-> inp, stop |-> stop]

ToolPayloads ==
    { ToolPayload("t1", "bash", NoInput, FALSE),
      ToolPayload("t2", "bash", NoInput, FALSE),
      ToolPayload("t1", None, NoInput, FALSE),
      ToolPayload(None, None, StrInput(<<"x">>), FALSE),
      ToolPayload(None, None, StrInput(<<"y", "z">>), FALSE),
      ToolPayload(None, None, DictInput(DumpedDict), FALSE),
      ToolPayload(None, None, DictInput(<<>>), FALSE),
      ToolPayload(None, None, NoInput, TRUE),
      ToolPayload(None, None, StrInput(<<"x">>), TRUE),
      ToolPayload("t1", "bash", StrInput(<<"x">>), TRUE) }

TextContents == { <<>>, <<"a">>, <<"b", "c">> }

ConversationIds == { None, "c1" }

(***************************************************************************)
(* ClaudeStreamHandler                                                     *)
(***************************************************************************)
NoToolUse == [toolUseId |-> None, name |-> None]

\* __init__
HandlerInit ==
    [ response_buffer |-> <<>>,
      content_block_index |-> -1,
      content_block_started |-> FALSE,
      content_block_start_sent |-> FALSE,
      content_block_stop_sent |-> FALSE,
      message_start_sent |-> FALSE,
      conversation_id |-> None,
      current_tool_use |-> NoToolUse,
      tool_input_buffer |-> <<>>,
      tool_use_id |-> None,
      tool_name |-> None,
      processed_tool_use_ids |-> {},
      all_tool_inputs |-> <<>> ]

\* The result of one call: the handler's fields after it and what it yielded.
Result(h, out) == [h |-> h, out |-> out]

\* Mutant of the initial-response branch: message_start is sent each time.
OnInitialResponse_Always(h, conversationId) ==
    Result([h EXCEPT !.conversation_id = conversationId, !.message_start_sent = TRUE],
           <<build_message_start(conversationId), build_ping>>)

\* handle_event, event_type == "initial-response"
OnInitialResponse(h, conversationId) ==
    IF ~h.message_start_sent
    THEN LET conv_id == IF conversationId # None THEN conversationId
                        ELSE IF h.conversation_id # None THEN h.conversation_id
                        ELSE "unknown"
         IN Result([h EXCEPT !.conversation_id = conv_id, !.message_start_sent = TRUE],
                   <<build_message_start(conv_id), build_ping>>)
    ELSE Result(h, <<>>)

\* assistantResponseEvent, "close any open tool use block"
CloseToolForText(r) ==
    IF r.h.current_tool_use # NoToolUse /\ ~r.h.content_block_stop_sent
    THEN Result([r.h EXCEPT !.content_block_stop_sent = TRUE,
                            !.current_tool_use = NoToolUse],
                r.out \o <<build_content_block_stop(r.h.content_block_index)>>)
    ELSE r

\* assistantResponseEvent, "start the content block if needed"
StartTextBlock(r) ==
    IF ~r.h.content_block_start_sent
    THEN Result([r.h EXCEPT !.content_block_index = @ + 1,
                            !.content_block_start_sent = TRUE,
                            !.content_block_started = TRUE],
                r.out \o <<build_content_block_start(r.h.content_block_index + 1, "text")>>)
    ELSE r

\* assistantResponseEvent, "send the delta"
SendTextDelta(r, content) ==
    IF content # <<>>
    THEN Result([r.h EXCEPT !.response_buffer = Append(@, content)],
                r.out \o <<build_content_block_delta(r.h.content_block_index, content)>>)
    ELSE r

\* handle_event, event_type == "assistantResponseEvent"
OnAssistantResponseEvent(h, content) ==
    SendTextDelta(StartTextBlock(CloseToolForText(Result(h, <<>>))), content)

\* Mutant of CloseTextForTool: a tool_use block opens over an open text block.
CloseTextForTool_Skipped(r) == r

\* toolUseEvent, "close the previous text block"
CloseTextForTool(r) ==
    IF r.h.content_block_start_sent /\ ~r.h.content_block_stop_sent
    THEN Result([r.h EXCEPT !.content_block_stop_sent = TRUE],
                r.out \o <<build_content_block_stop(r.h.content_block_index)>>)
    ELSE r

\* Mutant of OpenToolBlock: content_block_index is not advanced.
OpenToolBlock_SameIndex(r, p) ==
    Result([r.h EXCEPT !.processed_tool_use_ids = @ \cup {p.toolUseId},
                       !.content_block_started = TRUE,
                       !.current_tool_use = [toolUseId |-> p.toolUseId, name |-> p.name],
                       !.tool_use_id = p.toolUseId,
                       !.tool_name = p.name,
                       !.tool_input_buffer = <<>>,
                       !.content_block_stop_sent = FALSE,
                       !.content_block_start_sent = TRUE],
           r.out \o <<build_tool_use_start(r.h.content_block_index, p.toolUseId, p.name)>>)

\* toolUseEvent, the statements that open the tool_use block
OpenToolBlock(r, p) ==
    Result([r.h EXCEPT !.processed_tool_use_ids = @ \cup {p.toolUseId},
                       !.content_block_index = @ + 1,
                       !.content_block_started = TRUE,
                       !.current_tool_use = [toolUseId |-> p.toolUseId, name |-> p.name],
                       !.tool_use_id = p.toolUseId,
                       !.tool_name = p.name,
                       !.tool_input_buffer = <<>>,
                       !.content_block_stop_sent = FALSE,
                       !.content_block_start_sent = TRUE],
           r.out \o <<build_tool_use_start(r.h.content_block_index + 1, p.toolUseId, p.name)>>)

\* toolUseEvent, "start a new tool use"
StartToolUse(r, p) ==
    IF p.toolUseId # None /\ p.name # None /\ r.h.current_tool_use = NoToolUse
    THEN OpenToolBlock(CloseTextForTool(r), p)
    ELSE r

\* toolUseEvent, "accumulate the input"
AccumulateInput(r, p) ==
    IF r.h.current_tool_use # NoToolUse /\ InputTruthy(p.input)
    THEN Result([r.h EXCEPT !.tool_input_buffer = Append(@, p.input.s)],
                r.out \o <<build_tool_use_input_delta(r.h.content_block_index, p.input.s)>>)
    ELSE r

\* toolUseEvent, "stop the tool use"
StopToolUse(r, p) ==
    IF p.stop /\ r.h.current_tool_use # NoToolUse
    THEN Result([r.h EXCEPT !.all_tool_inputs = Append(@, Flatten(r.h.tool_input_buffer)),
                            !.content_block_stop_sent = TRUE,
                            !.content_block_started = FALSE,
                            !.current_tool_use = NoToolUse,
                            !.tool_use_id = None,
                            !.tool_name = None,
                            !.tool_input_buffer = <<>>],
                r.out \o <<build_content_block_stop(r.h.content_block_index)>>)
    ELSE r

\* handle_event, event_type == "toolUseEvent"
OnToolUseEvent(h, p) ==
    StopToolUse(AccumulateInput(StartToolUse(Result(h, <<>>), p), p), p)

\* handle_event, event_type == "assistantResponseEnd"
OnAssistantResponseEnd(h) ==
    IF h.content_block_started /\ ~h.content_block_stop_sent
    THEN Result([h EXCEPT !.content_block_stop_sent = TRUE],
                <<build_content_block_stop(h.content_block_index)>>)
    ELSE Result(h, <<>>)

\* Mutant of CloseLastBlock: finish() leaves the open block open.
CloseLastBlock_Never(h) == Result(h, <<>>)

\* finish(), "make sure the last block is closed"
CloseLastBlock(h) ==
    IF h.content_block_started /\ ~h.content_block_stop_sent
    THEN Result([h EXCEPT !.content_block_stop_sent = TRUE],
                <<build_content_block_stop(h.content_block_index)>>)
    ELSE Result(h, <<>>)

\* finish(), max(1, (len(full_text) + len(full_tool_input)) // 4)
OutputTokens(h) ==
    Max(1, (Len(Flatten(h.response_buffer)) + Len(Flatten(h.all_tool_inputs))) \div 4)

\* finish()
Finish(h) ==
    LET r == CloseLastBlock(h)
    IN Result(r.h, r.out \o build_message_stop(OutputTokens(r.h)))

(***************************************************************************)
(* Actions of the stream handler: one per upstream event type, and finish  *)
(***************************************************************************)
\* An upstream event (event_type, payload): content is the payload's content
\* of an assistantResponseEvent, tool the payload of a toolUseEvent.
NoToolPayload == ToolPayload(None, None, NoInput, FALSE)
Event(type, content, tool) == [type |-> type, content |-> content, tool |-> tool]

Apply(ev, r) ==
    /\ handler' = r.h
    /\ sse' = sse \o r.out
    /\ handled' = Append(handled, ev)
    /\ UNCHANGED finished
    /\ UNCHANGED notStreamVars

CanHandle == ~finished /\ Len(handled) < MaxEvents

handle_initial_response ==
    /\ CanHandle
    /\ \E c \in ConversationIds :
         Apply(Event("initial-response", <<>>, NoToolPayload), OnInitialResponse(handler, c))

handle_assistantResponseEvent ==
    /\ CanHandle
    /\ \E content \in TextContents :
         Apply(Event("assistantResponseEvent", content, NoToolPayload),
               OnAssistantResponseEvent(handler, content))

handle_toolUseEvent ==
    /\ CanHandle
    /\ \E p \in ToolPayloads :
         Apply(Event("toolUseEvent", <<>>, p), OnToolUseEvent(handler, p))

handle_assistantResponseEnd ==
    /\ CanHandle
    /\ Apply(Event("assistantResponseEnd", <<>>, NoToolPayload),
             OnAssistantResponseEnd(handler))

\* an event type the handler has no branch for
handle_unknown ==
    /\ CanHandle
    /\ Apply(Event("unknown", <<>>, NoToolPayload), Result(handler, <<>>))

finish ==
    /\ ~finished
    /\ handler' = Finish(handler).h
    /\ sse' = sse \o Finish(handler).out
    /\ finished' = TRUE
    /\ UNCHANGED handled
    /\ UNCHANGED notStreamVars

StreamInit ==
    /\ handler = HandlerInit
    /\ sse = <<>>
    /\ finished = FALSE
    /\ handled = <<>>

StreamNext ==
    \/ handle_initial_response
    \/ handle_assistantResponseEvent
    \/ handle_toolUseEvent
    \/ handle_assistantResponseEnd
    \/ handle_unknown
    \/ finish

(***************************************************************************)
(* claude_messages (server.py), stream=false: the loop that aggregates the *)
(* strings event_generator() yields into one response                      *)
(***************************************************************************)
EventPrefix == <<"e", "v", "e", "n", "t", ":", " ">>
DataPrefix == <<"d", "a", "t", "a", ":", " ">>

\* text.startswith(prefix)
StartsWith(text, prefix) ==
    Len(text) >= Len(prefix) /\ SubSeq(text, 1, Len(prefix)) = prefix

\* A string built by _sse_format, f"event: {event_type}\ndata: {json_data}\n\n":
\* the characters it begins with and the data of the events in it.
SseString(events) == [head |-> EventPrefix, events |-> events]

RECURSIVE SseStrings(_)
\* The strings event_generator() yields for the events of a stream: one for
\* each, and one for the message_delta and message_stop that
\* build_message_stop returns concatenated.
SseStrings(events) ==
    IF events = <<>> THEN <<>>
    ELSE IF Len(events) >= 2 /\ events[1].type = "message_delta"
                             /\ events[2].type = "message_stop"
         THEN <<SseString(SubSeq(events, 1, 2))>> \o SseStrings(SubSeq(events, 3, Len(events)))
         ELSE <<SseString(<<events[1]>>)>> \o SseStrings(Tail(events))

\* The values of a tool_use block's "input"
EmptyDict == [kind |-> "dict", items |-> <<>>]
ParsedDict == [kind |-> "dict", items |-> <<"a", "1">>]
RawText(text) == [kind |-> "str", items |-> text]

\* json.loads(text) succeeds.  Of the texts the fragments of the model make,
\* only the dumped dict is a JSON text.
IsJson(text) == text = DumpedDict

\* json.loads(text) of such a text: {"a": 1}
json_loads(text) == ParsedDict

\* An element of final_content: None, or the content_block dict of a
\* content_block_start with what the loop adds to it.
NoBlock ==
    [type |-> None, text |-> <<>>, id |-> None, name |-> None, input |-> EmptyDict,
     has_text |-> FALSE, has_partial_json |-> FALSE, partial_json |-> <<>>]

\* data.get("content_block"): {"type": "text", "text": ""}, or
\* {"type": "tool_use", "id": ..., "name": ..., "input": {}}
ContentBlock(data) ==
    [NoBlock EXCEPT !.type = data.block, !.id = data.id, !.name = data.name,
                    !.has_text = (data.block = "text")]

Aggregate(final_content, usage, stop_reason) ==
    [final_content |-> final_content, usage |-> usage, stop_reason |-> stop_reason]

\* content_blocks = [], usage = {..., "output_tokens": 0}, stop_reason = None
NoAggregate == Aggregate(<<>>, 0, None)

\* "while len(final_content) <= idx: final_content.append(None)"
Padded(final_content, idx) ==
    final_content \o [i \in 1..(idx + 1 - Len(final_content)) |-> NoBlock]

\* dtype == "content_block_start"
OnBlockStart(agg, data) ==
    [agg EXCEPT !.final_content =
        [Padded(agg.final_content, data.index) EXCEPT ![data.index + 1] = ContentBlock(data)]]

\* dtype == "content_block_delta"; an IndexError or KeyError is passed over
OnBlockDelta(agg, data) ==
    LET at == data.index + 1
    IN IF at \notin DOMAIN agg.final_content \/ agg.final_content[at] = NoBlock THEN agg
       ELSE IF data.delta = "text_delta"
            THEN IF agg.final_content[at].has_text
                 THEN [agg EXCEPT !.final_content[at].text = @ \o data.text]
                 ELSE agg
       ELSE IF data.delta = "input_json_delta"
            THEN [agg EXCEPT !.final_content[at].has_partial_json = TRUE,
                             !.final_content[at].partial_json = @ \o data.text]
       ELSE agg

\* dtype == "content_block_stop": the input is parsed, partial_json deleted
OnBlockStop(agg, data) ==
    LET at == data.index + 1
    IN IF at \notin DOMAIN agg.final_content \/ agg.final_content[at] = NoBlock THEN agg
       ELSE IF agg.final_content[at].type = "tool_use"
               /\ agg.final_content[at].has_partial_json
            THEN [agg EXCEPT !.final_content[at].input =
                                 IF IsJson(agg.final_content[at].partial_json)
                                 THEN json_loads(agg.final_content[at].partial_json)
                                 ELSE @,
                             !.final_content[at].has_partial_json = FALSE,
                             !.final_content[at].partial_json = <<>>]
       ELSE agg

\* dtype == "message_delta"
OnMessageDelta(agg, data) ==
    [agg EXCEPT !.usage = data.tokens, !.stop_reason = "end_turn"]

\* The body of "try: data = json.loads(data_str) ..." for the data of one event
OnData(agg, data) ==
    IF data.type = "content_block_start" THEN OnBlockStart(agg, data)
    ELSE IF data.type = "content_block_delta" THEN OnBlockDelta(agg, data)
    ELSE IF data.type = "content_block_stop" THEN OnBlockStop(agg, data)
    ELSE IF data.type = "message_delta" THEN OnMessageDelta(agg, data)
    ELSE agg

\* One turn of "async for sse_line in event_generator()": a string is read
\* if it starts with "data: "; json.loads fails, and the string is passed
\* over, when more than one event is in it.
OnSseLine(agg, sse_line) ==
    IF StartsWith(sse_line.head, DataPrefix)
    THEN IF Len(sse_line.events) = 1 THEN OnData(agg, sse_line.events[1]) ELSE agg
    ELSE agg

RECURSIVE AggregateLoop(_, _)
AggregateLoop(agg, sse_lines) ==
    IF sse_lines = <<>> THEN agg
    ELSE AggregateLoop(OnSseLine(agg, Head(sse_lines)), Tail(sse_lines))

\* The response of the non-streaming path for the events of a whole stream:
\* "content": [c for c in final_content if c is not None]
Aggregated(events) ==
    LET agg == AggregateLoop(NoAggregate, SseStrings(events))
    IN [content |-> SelectSeq(agg.final_content, LAMBDA c : c # NoBlock),
        stop_reason |-> agg.stop_reason,
        usage |-> agg.usage]

(***************************************************************************)
(* send_chat_request (client.py): the lifecycle of the upstream response   *)
(* and of the HTTP client                                                  *)
(***************************************************************************)
\* What the call holds: the response and the counts of close invocations.
Held(r, c) == [resp |-> r, close_calls |-> c]

\* await resp.aclose()
resp_aclose(x) ==
    Held([x.resp EXCEPT !.is_closed = TRUE],
         [x.close_calls EXCEPT !.resp = @ + 1])

\* await client.aclose()
client_aclose(x) == Held(x.resp, [x.close_calls EXCEPT !.client = @ + 1])

\* Mutant of CloseLocalClient: the client is closed whoever created it.
CloseLocalClient_Always(x, local) == client_aclose(x)

\* "if local_client: await client.aclose()"
CloseLocalClient(x, local) == IF local THEN client_aclose(x) ELSE x

\* The cleanup of every except block of the call and of _safe_iter_events:
\*   if resp and not resp.is_closed: await resp.aclose()
\*   if local_client and client: await client.aclose()
ExceptCleanup(x, local) ==
    CloseLocalClient(
        IF x.resp.status_code # 0 /\ ~x.resp.is_closed THEN resp_aclose(x) ELSE x,
        local)

\* The finally block of _iter_events: both closes, unguarded.
IterEventsFinally(x, local) == CloseLocalClient(resp_aclose(x), local)

\* The branch for resp.status_code >= 400, before its raise.
UpstreamErrorCleanup(x, local) == CloseLocalClient(resp_aclose(x), local)

\* The finally block of the non-streaming branch.
NonStreamFinally(x, consumed, local) ==
    IF ~consumed /\ x.resp.status_code # 0
    THEN CloseLocalClient(resp_aclose(x), local)
    ELSE x

NoResp == [status_code |-> 0, is_closed |-> FALSE]

NoError == [type |-> "None", message |-> <<>>]

\* An exception raised by client.send or by the byte stream.
TransportError == [type |-> "TransportError", message |-> <<>>]

Digit == <<"0", "1", "2", "3", "4", "5", "6", "7", "8", "9">>

\* str(n) for n >= 0, as used by the f-strings of the error branch.
RECURSIVE Str(_)
Str(n) == IF n < 10 THEN <<Digit[n + 1]>>
          ELSE Str(n \div 10) \o <<Digit[(n % 10) + 1]>>

\* resp.text of an error response.
ErrorBodies == {<<>>, <<"b">>, <<"4", "0", "0">>}

\* "except Exception: err = f'HTTP {resp.status_code}'", when resp.read() raises.
ReadFailed(status_code) == <<"HTTP ">> \o Str(status_code)

UpstreamError_NoStatus(status_code, err) ==
    [type |-> "HTTPError", message |-> <<"Upstream error: ">> \o err]

\* httpx.HTTPError(f"Upstream error {resp.status_code}: {err}")
UpstreamError(status_code, err) ==
    [type |-> "HTTPError",
     message |-> <<"Upstream error ">> \o Str(status_code) \o <<": ">> \o err]

StatusCodes == {200, 400, 500}

Holding == Held(resp, close_calls)

Release(x) ==
    /\ resp' = x.resp
    /\ close_calls' = x.close_calls

\* client.send(req, stream=True) raises: no response was obtained.
send_raises ==
    /\ call_pc = "ready"
    /\ \E l \in BOOLEAN, s \in BOOLEAN :
         /\ local_client' = l
         /\ stream' = s
         /\ Release(ExceptCleanup(Holding, l))
    /\ call_pc' = "raised"
    /\ exit_path' = "send_error"
    /\ error' = TransportError
    /\ UNCHANGED <<response_consumed, has_content, event_generator, safe_iter,
                   iter_events, yielded>>
    /\ UNCHANGED notClientVars

\* The response has status >= 400: read, close, raise; the raise passes through
\* the call's outer except block.
send_upstream_error ==
    /\ call_pc = "ready"
    /\ \E l \in BOOLEAN, s \in BOOLEAN, code \in {c \in StatusCodes : c >= 400},
          err \in ErrorBodies :
         /\ local_client' = l
         /\ stream' = s
         /\ Release(ExceptCleanup(
                UpstreamErrorCleanup(Held([status_code |-> code, is_closed |-> FALSE],
                                          close_calls), l), l))
         /\ \E read_ok \in BOOLEAN :
              error' = UpstreamError(code, IF read_ok THEN err ELSE ReadFailed(code))
    /\ call_pc' = "raised"
    /\ exit_path' = "upstream_error"
    /\ UNCHANGED <<response_consumed, has_content, event_generator, safe_iter,
                   iter_events, yielded>>
    /\ UNCHANGED notClientVars

\* stream=True and status < 400: the generator object is returned, not started.
send_returns_iterator ==
    /\ call_pc = "ready"
    /\ \E l \in BOOLEAN, code \in {c \in StatusCodes : c < 400} :
         /\ local_client' = l
         /\ resp' = [status_code |-> code, is_closed |-> FALSE]
    /\ stream' = TRUE
    /\ call_pc' = "returned"
    /\ safe_iter' = "created"
    /\ event_generator' = "created"
    /\ UNCHANGED <<response_consumed, has_content, close_calls, iter_events,
                   exit_path, yielded>>
    /\ UNCHANGED error
    /\ UNCHANGED notClientVars

\* stream=False and status < 400: _iter_events is consumed inside the call,
\* to its end or to an error of the byte stream.
send_consumes ==
    /\ call_pc = "ready"
    /\ \E l \in BOOLEAN, code \in {c \in StatusCodes : c < 400},
          end \in {"exhausted", "error"} :
         LET got == Held([status_code |-> code, is_closed |-> FALSE], close_calls)
             after_iter == NonStreamFinally(IterEventsFinally(got, l), TRUE, l)
             raises == end = "error" /\ ~has_content
         IN /\ local_client' = l
            /\ Release(IF raises THEN ExceptCleanup(after_iter, l) ELSE after_iter)
            /\ call_pc' = IF raises THEN "raised" ELSE "returned"
            /\ exit_path' = IF raises THEN "error" ELSE "exhausted"
            /\ error' = IF raises THEN TransportError ELSE NoError
    /\ stream' = FALSE
    /\ response_consumed' = TRUE
    /\ iter_events' = "done"
    /\ UNCHANGED <<has_content, event_generator, safe_iter, yielded>>
    /\ UNCHANGED notClientVars

\* The consumer of event_generator() (StreamingResponse, or the aggregation
\* loop of claude_messages) asks for the next SSE event and event_generator
\* has to ask event_iter for the next upstream item: the three generators
\* run until _iter_events awaits the byte stream.
consumer_next ==
    /\ event_generator \in {"created", "suspended"}
    /\ safe_iter \in {"created", "suspended"}
    /\ event_generator' = "awaiting"
    /\ safe_iter' = "awaiting"
    /\ iter_events' = "awaiting"
    /\ UNCHANGED <<call_pc, local_client, stream, resp, response_consumed, has_content,
                   close_calls, exit_path, yielded>>
    /\ UNCHANGED error
    /\ UNCHANGED notClientVars

\* The byte stream delivers an event: _iter_events and _safe_iter_events yield
\* it; handle_event yields SSE events for it (event_generator suspends at its
\* yield) or none (event_generator asks for the next item at once).
upstream_item ==
    /\ event_generator = "awaiting"
    /\ yielded < MaxItems
    /\ yielded' = yielded + 1
    /\ \E emits \in BOOLEAN :
         IF emits
         THEN /\ event_generator' = "suspended"
              /\ safe_iter' = "suspended"
              /\ iter_events' = "suspended"
         ELSE UNCHANGED <<event_generator, safe_iter, iter_events>>
    /\ UNCHANGED <<call_pc, local_client, stream, resp, response_consumed, has_content,
                   close_calls, exit_path>>
    /\ UNCHANGED error
    /\ UNCHANGED notClientVars

\* The byte stream ends: _iter_events runs its finally block, both generators
\* end and event_generator goes on to yield the events of handler.finish().
upstream_exhausted ==
    /\ event_generator = "awaiting"
    /\ Release(IterEventsFinally(Holding, local_client))
    /\ response_consumed' = TRUE
    /\ iter_events' = "done"
    /\ safe_iter' = "done"
    /\ event_generator' = "suspended"
    /\ exit_path' = "exhausted"
    /\ UNCHANGED <<call_pc, local_client, stream, has_content, yielded>>
    /\ UNCHANGED error
    /\ UNCHANGED notClientVars

\* A decode or transport error while iterating: _iter_events re-raises it
\* unless tracker.has_content, runs its finally block, and the error passes
\* through "except Exception" of _safe_iter_events and through event_generator.
upstream_error ==
    /\ event_generator = "awaiting"
    /\ LET after_iter == IterEventsFinally(Holding, local_client)
       IN IF has_content
          THEN /\ Release(after_iter)
               /\ exit_path' = "exhausted"
               /\ event_generator' = "suspended"
          ELSE /\ Release(ExceptCleanup(after_iter, local_client))
               /\ exit_path' = "error"
               /\ event_generator' = "done"
    /\ response_consumed' = TRUE
    /\ iter_events' = "done"
    /\ safe_iter' = "done"
    /\ UNCHANGED <<call_pc, local_client, stream, has_content, yielded>>
    /\ UNCHANGED error
    /\ UNCHANGED notClientVars

\* asyncio.timeout(300) expires while _iter_events awaits the byte stream: the
\* cancellation runs the finally block of _iter_events and arrives in
\* _safe_iter_events as asyncio.TimeoutError.
upstream_timeout ==
    /\ event_generator = "awaiting"
    /\ Release(ExceptCleanup(IterEventsFinally(Holding, local_client), local_client))
    /\ response_consumed' = TRUE
    /\ iter_events' = "done"
    /\ safe_iter' = "done"
    /\ event_generator' = "done"
    /\ exit_path' = "timeout"
    /\ UNCHANGED <<call_pc, local_client, stream, has_content, yielded>>
    /\ UNCHANGED error
    /\ UNCHANGED notClientVars

\* The request's task is cancelled while _iter_events awaits the byte stream
\* (the client disconnected): CancelledError runs the finally block of
\* _iter_events; no except clause of _safe_iter_events catches it.
task_cancelled ==
    /\ event_generator = "awaiting"
    /\ Release(IterEventsFinally(Holding, local_client))
    /\ response_consumed' = TRUE
    /\ iter_events' = "done"
    /\ safe_iter' = "done"
    /\ event_generator' = "done"
    /\ exit_path' = "cancelled"
    /\ UNCHANGED <<call_pc, local_client, stream, has_content, yielded>>
    /\ UNCHANGED error
    /\ UNCHANGED notClientVars

\* The consumer asks for the next SSE event after the events of finish():
\* event_generator ends.
consumer_end ==
    /\ event_generator = "suspended"
    /\ safe_iter = "done"
    /\ event_generator' = "done"
    /\ UNCHANGED <<call_pc, local_client, stream, resp, response_consumed, has_content,
                   close_calls, safe_iter, iter_events, exit_path, yielded>>
    /\ UNCHANGED error
    /\ UNCHANGED notClientVars

\* The consumer stops reading: event_generator is closed before it was started
\* (no statement of it runs) or at its yield (GeneratorExit, re-raised).  It
\* does not close event_iter.
consumer_close ==
    /\ event_generator \in {"created", "suspended"}
    /\ event_generator' = "done"
    /\ exit_path' = IF safe_iter = "done" THEN exit_path
                    ELSE IF safe_iter = "created" THEN "closed_unstarted"
                    ELSE "closed"
    /\ UNCHANGED <<call_pc, local_client, stream, resp, response_consumed, has_content,
                   close_calls, safe_iter, iter_events, yielded>>
    /\ UNCHANGED error
    /\ UNCHANGED notClientVars

\* The event loop finalizes the abandoned _safe_iter_events generator.  Not
\* started, no statement of its body runs; suspended at its yield,
\* GeneratorExit runs its "except GeneratorExit" block.  _iter_events stays
\* suspended at its own yield.
finalize_safe_iter ==
    /\ event_generator = "done"
    /\ safe_iter \in {"created", "suspended"}
    /\ Release(IF safe_iter = "suspended"
               THEN ExceptCleanup(Holding, local_client)
               ELSE Holding)
    /\ safe_iter' = "done"
    /\ UNCHANGED <<call_pc, local_client, stream, response_consumed, has_content,
                   event_generator, iter_events, exit_path, yielded>>
    /\ UNCHANGED error
    /\ UNCHANGED notClientVars

\* The event loop finalizes the abandoned _iter_events generator: GeneratorExit
\* at its yield runs its finally block.
finalize_iter_events ==
    /\ safe_iter = "done"
    /\ iter_events = "suspended"
    /\ Release(IterEventsFinally(Holding, local_client))
    /\ response_consumed' = TRUE
    /\ iter_events' = "done"
    /\ UNCHANGED <<call_pc, local_client, stream, has_content, event_generator,
                   safe_iter, exit_path, yielded>>
    /\ UNCHANGED error
    /\ UNCHANGED notClientVars

ClientInit ==
    /\ call_pc = "ready"
    /\ local_client = FALSE
    /\ stream = FALSE
    /\ resp = NoResp
    /\ response_consumed = FALSE
    /\ has_content = FALSE
    /\ close_calls = [resp |-> 0, client |-> 0]
    /\ event_generator = "none"
    /\ safe_iter = "none"
    /\ iter_events = "none"
    /\ exit_path = ""
    /\ yielded = 0
    /\ error = NoError

ClientNext ==
    \/ send_raises
    \/ send_upstream_error
    \/ send_returns_iterator
    \/ send_consumes
    \/ consumer_next
    \/ upstream_item
    \/ upstream_exhausted
    \/ upstream_error
    \/ upstream_timeout
    \/ task_cancelled
    \/ consumer_end
    \/ consumer_close
    \/ finalize_safe_iter
    \/ finalize_iter_events

(***************************************************************************)
(* Credential cache (middleware.py)                                        *)
(***************************************************************************)
\* A header that was not sent (Python None), among strings that are
\* sequences of characters.
NoneStr == <<"None">>

\* Python truthiness of an Optional[str]
Truthy(str) == str # NoneStr /\ str # <<>>

RECURSIVE Split(_, _)
\* text.split(sep), sep one character: the parts, at least one
Split(text, sep) ==
    IF \E i \in DOMAIN text : text[i] = sep
    THEN LET i == CHOOSE k \in DOMAIN text :
                      text[k] = sep /\ \A m \in 1..(k - 1) : text[m] # sep
         IN <<SubSeq(text, 1, i - 1)>> \o Split(SubSeq(text, i + 1, Len(text)), sep)
    ELSE <<text>>

RECURSIVE Join(_, _)
\* sep.join(parts)
Join(sep, parts) ==
    IF parts = <<>> THEN <<>>
    ELSE IF Len(parts) = 1 THEN parts[1]
    ELSE parts[1] \o <<sep>> \o Join(sep, Tail(parts))

\* _sha256: a hash is not the text; distinct texts have distinct hashes.
sha256(text) == <<"sha256", text>>

\* Mutant of parse_bearer_token: split(":") with the refresh token not re-joined.
parse_bearer_token_NoJoin(bearer_token) ==
    LET temp_array == Split(bearer_token, ":")
    IN [client_id |-> IF Len(temp_array) > 0 THEN temp_array[1] ELSE <<>>,
        client_secret |-> IF Len(temp_array) > 1 THEN temp_array[2] ELSE <<>>,
        refresh_token |-> IF Len(temp_array) > 2 THEN temp_array[3] ELSE <<>>]

\* _parse_bearer_token
parse_bearer_token(bearer_token) ==
    LET temp_array == Split(bearer_token, ":")
    IN [client_id |-> IF Len(temp_array) > 0 THEN temp_array[1] ELSE <<>>,
        client_secret |-> IF Len(temp_array) > 1 THEN temp_array[2] ELSE <<>>,
        refresh_token |-> IF Len(temp_array) > 2
                          THEN Join(":", SubSeq(temp_array, 3, Len(temp_array)))
                          ELSE <<>>]

\* Mutant of InvalidFormat: the refresh token is not checked.
InvalidFormat_NoRefreshCheck(parsed) ==
    parsed.client_id = <<>> \/ parsed.client_secret = <<>>

\* "if not client_id or not client_secret or not refresh_token"
InvalidFormat(parsed) ==
    parsed.client_id = <<>> \/ parsed.client_secret = <<>> \/ parsed.refresh_token = <<>>

BearerPrefix == <<"B", "e", "a", "r", "e", "r", " ">>

\* authorization.startswith("Bearer ")
StartsWithBearer(authorization) ==
    /\ Len(authorization) >= Len(BearerPrefix)
    /\ SubSeq(authorization, 1, Len(BearerPrefix)) = BearerPrefix

\* The token auth_middleware takes from its two headers; NoneStr when there
\* is none.
HeaderToken(authorization, x_api_key) ==
    LET token == IF Truthy(x_api_key) THEN x_api_key ELSE NoneStr
    IN IF ~Truthy(token) /\ Truthy(authorization) /\ StartsWithBearer(authorization)
       THEN SubSeq(authorization, Len(BearerPrefix) + 1, Len(authorization))
       ELSE token

\* The secrets callers send: clientId:clientSecret:refreshToken, a refresh
\* token holding ":", and secrets that lack a part.
Secrets ==
    { <<"a", ":", "b", ":", "c">>,
      <<"a", ":", "b", ":", "c", ":", "d">>,
      <<"a", ":", "b">>,
      <<"a", ":", ":", "c">> }

\* The (authorization, x-api-key) header pairs of the requests.
Headers ==
    { [authorization |-> NoneStr, x_api_key |-> k] : k \in Secrets }
    \cup { [authorization |-> BearerPrefix \o <<"a", ":", "b", ":", "c">>,
            x_api_key |-> NoneStr],
           [authorization |-> <<"B", "a", "s", "i", "c", " ", "a">>, x_api_key |-> NoneStr],
           [authorization |-> NoneStr, x_api_key |-> NoneStr] }

Workers == {"w1", "w2"}

NoCreds == [client_id |-> <<>>, client_secret |-> <<>>, refresh_token |-> <<>>]

\* A worker that serves no request.
IdleReq ==
    [pc |-> "idle", token |-> NoneStr, creds |-> NoCreds, call |-> 0,
     hit |-> FALSE, accessToken |-> NoneStr, refreshes |-> 0]

\* What a request ended with: the HTTP status, the token-refresh calls
\* auth_middleware issued for it and the upstream chat calls made for it.
Outcome(token, status, refreshes, upstream) ==
    [token |-> token, status |-> status, refreshes |-> refreshes, upstream |-> upstream]

\* The access token the n-th token-refresh call returns when it succeeds: the
\* OIDC endpoint mints a new one on every call.
Minted(n) == <<"at", n>>

\* time.time(): the time passes with the calls made
Now == started + oidc_calls

\* The hits of a token, with one more.
Hit(log, token, access_token) ==
    LET old == IF token \in DOMAIN log THEN log[token] ELSE <<>>
        new == IF Len(old) = 2 THEN <<old[2], access_token>> ELSE Append(old, access_token)
    IN [t \in DOMAIN log \cup {token} |-> IF t = token THEN new ELSE log[t]]

NoHits == [t \in {} |-> <<>>]

\* TOKEN_MAP[hash_key] = entry
Store(map, hash_key, entry) ==
    [k \in DOMAIN map \cup {hash_key} |-> IF k = hash_key THEN entry ELSE map[k]]

CanStart(w) ==
    /\ req[w].pc = "idle"
    /\ started < MaxCalls

\* auth_middleware with no token in its headers: 401.
auth_missing(w) ==
    /\ CanStart(w)
    /\ \E h \in Headers :
         /\ ~Truthy(HeaderToken(h.authorization, h.x_api_key))
         /\ outcome' = Outcome(NoneStr, 401, 0, 0)
    /\ started' = started + 1
    /\ UNCHANGED <<TOKEN_MAP, req, sweep, oidc_calls, oidc_requests, hits>>
    /\ UNCHANGED notAuthVars

\* auth_middleware, the hash of the token is in TOKEN_MAP: the cached entry
\* is returned.
auth_hit(w) ==
    /\ CanStart(w)
    /\ \E h \in Headers :
         LET token == HeaderToken(h.authorization, h.x_api_key)
             token_hash == sha256(token)
         IN /\ Truthy(token)
            /\ token_hash \in DOMAIN TOKEN_MAP
            /\ req' = [req EXCEPT ![w] =
                         [IdleReq EXCEPT !.pc = "authed", !.token = token, !.hit = TRUE,
                                         !.accessToken = TOKEN_MAP[token_hash].accessToken]]
            /\ hits' = Hit(hits, token, TOKEN_MAP[token_hash].accessToken)
    /\ started' = started + 1
    /\ UNCHANGED <<TOKEN_MAP, sweep, oidc_calls, oidc_requests, outcome>>
    /\ UNCHANGED notAuthVars

\* auth_middleware, cache miss and a token that does not parse: 401.
auth_invalid(w) ==
    /\ CanStart(w)
    /\ \E h \in Headers :
         LET token == HeaderToken(h.authorization, h.x_api_key)
         IN /\ Truthy(token)
            /\ sha256(token) \notin DOMAIN TOKEN_MAP
            /\ InvalidFormat(parse_bearer_token(token))
            /\ outcome' = Outcome(token, 401, 0, 0)
    /\ started' = started + 1
    /\ UNCHANGED <<TOKEN_MAP, req, sweep, oidc_calls, oidc_requests, hits>>
    /\ UNCHANGED notAuthVars

\* auth_middleware, cache miss and a token that parses: the token-refresh
\* call is issued and the coroutine awaits its response.
auth_miss(w) ==
    /\ CanStart(w)
    /\ \E h \in Headers :
         LET token == HeaderToken(h.authorization, h.x_api_key)
         IN /\ Truthy(token)
            /\ sha256(token) \notin DOMAIN TOKEN_MAP
            /\ ~InvalidFormat(parse_bearer_token(token))
            /\ req' = [req EXCEPT ![w] =
                         [IdleReq EXCEPT !.pc = "refreshing", !.token = token,
                                         !.creds = parse_bearer_token(token),
                                         !.call = oidc_calls + 1,
                                         !.refreshes = 1]]
            /\ oidc_requests' = Append(oidc_requests, parse_bearer_token(token))
    /\ oidc_calls' = oidc_calls + 1
    /\ started' = started + 1
    /\ UNCHANGED <<TOKEN_MAP, sweep, outcome, hits>>
    /\ UNCHANGED notAuthVars

\* auth_middleware resumes with the access token of its refresh call: the
\* entry is stored and the account returned.
auth_refreshed(w) ==
    /\ req[w].pc = "refreshing"
    /\ LET access_token == Minted(req[w].call)
       IN /\ TOKEN_MAP' = Store(TOKEN_MAP, sha256(req[w].token),
                                [accessToken |-> access_token,
                                 refreshToken |-> req[w].creds.refresh_token,
                                 clientId |-> req[w].creds.client_id,
                                 clientSecret |-> req[w].creds.client_secret,
                                 lastRefresh |-> Now])
          /\ req' = [req EXCEPT ![w].pc = "authed", ![w].accessToken = access_token]
    /\ UNCHANGED <<sweep, oidc_calls, oidc_requests, started, outcome, hits>>
    /\ UNCHANGED notAuthVars

\* Mutant of auth_refresh_failed: the failed refresh leaves an entry behind.
auth_refresh_failed_Stores(w) ==
    /\ req[w].pc = "refreshing"
    /\ outcome' = Outcome(req[w].token, 401, req[w].refreshes, 0)
    /\ TOKEN_MAP' = Store(TOKEN_MAP, sha256(req[w].token),
                          [accessToken |-> NoneStr,
                           refreshToken |-> req[w].creds.refresh_token,
                           clientId |-> req[w].creds.client_id,
                           clientSecret |-> req[w].creds.client_secret,
                           lastRefresh |-> Now])
    /\ req' = [req EXCEPT ![w] = IdleReq]
    /\ UNCHANGED <<sweep, oidc_calls, oidc_requests, started, hits>>
    /\ UNCHANGED notAuthVars

\* auth_middleware resumes with None (_handle_token_refresh got a non-2xx
\* response, a transport error, or a response without accessToken): 401.
auth_refresh_failed(w) ==
    /\ req[w].pc = "refreshing"
    /\ outcome' = Outcome(req[w].token, 401, req[w].refreshes, 0)
    /\ req' = [req EXCEPT ![w] = IdleReq]
    /\ UNCHANGED <<TOKEN_MAP, sweep, oidc_calls, oidc_requests, started, hits>>
    /\ UNCHANGED notAuthVars

\* claude_messages with the account auth_middleware returned: the request is
\* converted (400 when that fails) and sent upstream.
claude_messages(w) ==
    /\ req[w].pc = "authed"
    /\ \E converts \in BOOLEAN :
         outcome' = Outcome(req[w].token, IF converts THEN 200 ELSE 400,
                            req[w].refreshes, IF converts THEN 1 ELSE 0)
    /\ req' = [req EXCEPT ![w] = IdleReq]
    /\ UNCHANGED <<TOKEN_MAP, sweep, oidc_calls, oidc_requests, started, hits>>
    /\ UNCHANGED notAuthVars

\* The credentials an entry holds.
EntryCreds(entry) ==
    [client_id |-> entry.clientId, client_secret |-> entry.clientSecret,
     refresh_token |-> entry.refreshToken]

\* Mutant of SweepCreds: every refresh of a sweep is sent with the
\* credentials of the first entry.
SweepCreds_First(items, i) == EntryCreds(items[1].token_data)

\* token_data["clientId"], token_data["clientSecret"], token_data["refreshToken"]
\* of the i-th item of the sweep
SweepCreds(items, i) == EntryCreds(items[i].token_data)

IdleSweep == [pc |-> "idle", items |-> <<>>, i |-> 0, call |-> 0]

RECURSIVE Items(_, _)
\* list(TOKEN_MAP.items()) of the keys given
Items(map, keys) ==
    IF keys = {} THEN <<>>
    ELSE LET k == CHOOSE x \in keys : TRUE
         IN <<[hash_key |-> k, token_data |-> map[k]]>> \o Items(map, keys \ {k})

\* refresh_all_tokens starts on a cache that is not empty: it takes the list
\* of the entries and issues the refresh call for the first.
refresh_all_tokens ==
    /\ sweep.pc = "idle"
    /\ started < MaxCalls
    /\ DOMAIN TOKEN_MAP # {}
    /\ sweep' = [pc |-> "refreshing", items |-> Items(TOKEN_MAP, DOMAIN TOKEN_MAP),
                 i |-> 1, call |-> oidc_calls + 1]
    /\ oidc_requests' = Append(oidc_requests,
                               SweepCreds(Items(TOKEN_MAP, DOMAIN TOKEN_MAP), 1))
    /\ oidc_calls' = oidc_calls + 1
    /\ started' = started + 1
    /\ hits' = NoHits
    /\ UNCHANGED <<TOKEN_MAP, req, outcome>>
    /\ UNCHANGED notAuthVars

\* Mutant of sweep_resume: a refresh that fails ends the sweep.
sweep_resume_Aborts ==
    /\ sweep.pc = "refreshing"
    /\ \E ok \in BOOLEAN :
         LET hash_key == sweep.items[sweep.i].hash_key
         IN /\ TOKEN_MAP' = IF ok
                            THEN [TOKEN_MAP EXCEPT ![hash_key].accessToken = Minted(sweep.call),
                                                   ![hash_key].lastRefresh = Now]
                            ELSE TOKEN_MAP
            /\ IF ok /\ sweep.i < Len(sweep.items)
               THEN /\ sweep' = [sweep EXCEPT !.i = @ + 1, !.call = oidc_calls + 1]
                    /\ oidc_requests' =
                           Append(oidc_requests, SweepCreds(sweep.items, sweep.i + 1))
                    /\ oidc_calls' = oidc_calls + 1
               ELSE /\ sweep' = [sweep EXCEPT !.pc = "idle", !.items = <<>>, !.i = 0, !.call = 0]
                    /\ UNCHANGED <<oidc_calls, oidc_requests>>
    /\ hits' = NoHits
    /\ UNCHANGED <<req, started, outcome>>
    /\ UNCHANGED notAuthVars

\* Mutant of sweep_resume: a refresh that fails removes the entry.
sweep_resume_Drops ==
    /\ sweep.pc = "refreshing"
    /\ \E ok \in BOOLEAN :
         LET hash_key == sweep.items[sweep.i].hash_key
         IN /\ TOKEN_MAP' = IF ok
                            THEN [TOKEN_MAP EXCEPT ![hash_key].accessToken = Minted(sweep.call),
                                                   ![hash_key].lastRefresh = Now]
                            ELSE [k \in DOMAIN TOKEN_MAP \ {hash_key} |-> TOKEN_MAP[k]]
    /\ IF sweep.i < Len(sweep.items)
       THEN /\ sweep' = [sweep EXCEPT !.i = @ + 1, !.call = oidc_calls + 1]
            /\ oidc_requests' =
                   Append(oidc_requests, SweepCreds(sweep.items, sweep.i + 1))
            /\ oidc_calls' = oidc_calls + 1
       ELSE /\ sweep' = [sweep EXCEPT !.pc = "idle", !.items = <<>>, !.i = 0, !.call = 0]
            /\ UNCHANGED <<oidc_calls, oidc_requests>>
    /\ hits' = NoHits
    /\ UNCHANGED <<req, started, outcome>>
    /\ UNCHANGED notAuthVars

\* refresh_all_tokens resumes with the result of the refresh call for entry
\* i: a new token is written into the entry TOKEN_MAP holds for the key;
\* then the call for the next entry is issued, or the sweep ends.
sweep_resume ==
    /\ sweep.pc = "refreshing"
    /\ \E ok \in BOOLEAN :
         LET hash_key == sweep.items[sweep.i].hash_key
         IN /\ TOKEN_MAP' = IF ok
                            THEN [TOKEN_MAP EXCEPT ![hash_key].accessToken = Minted(sweep.call),
                                                   ![hash_key].lastRefresh = Now]
                            ELSE TOKEN_MAP
    /\ IF sweep.i < Len(sweep.items)
       THEN /\ sweep' = [sweep EXCEPT !.i = @ + 1, !.call = oidc_calls + 1]
            /\ oidc_requests' =
                   Append(oidc_requests, SweepCreds(sweep.items, sweep.i + 1))
            /\ oidc_calls' = oidc_calls + 1
       ELSE /\ sweep' = [sweep EXCEPT !.pc = "idle", !.items = <<>>, !.i = 0, !.call = 0]
            /\ UNCHANGED <<oidc_calls, oidc_requests>>
    /\ hits' = NoHits
    /\ UNCHANGED <<req, started, outcome>>
    /\ UNCHANGED notAuthVars

AuthInit ==
    /\ TOKEN_MAP = [k \in {} |-> 0]
    /\ req = [w \in Workers |-> IdleReq]
    /\ sweep = IdleSweep
    /\ oidc_calls = 0
    /\ oidc_requests = <<>>
    /\ started = 0
    /\ outcome = Outcome(NoneStr, 0, 0, 0)
    /\ hits = NoHits

AuthNext ==
    \/ \E w \in Workers : auth_missing(w)
    \/ \E w \in Workers : auth_hit(w)
    \/ \E w \in Workers : auth_invalid(w)
    \/ \E w \in Workers : auth_miss(w)
    \/ \E w \in Workers : auth_refreshed(w)
    \/ \E w \in Workers : auth_refresh_failed(w)
    \/ \E w \in Workers : claude_messages(w)
    \/ refresh_all_tokens
    \/ sweep_resume

(***************************************************************************)
(* Event-stream frame decoder (parser.py).  Bytes are numbers 0..255.  A   *)
(* Python value is a record [type, value]: str and bytes hold their code   *)
(* points / bytes, int holds <<n>>, dict holds <<key code points, value>>  *)
(* flattened, None holds <<>>.                                             *)
(***************************************************************************)
Min(a, b) == IF a <= b THEN a ELSE b

PyNone == [type |-> "NoneType", value |-> <<>>]
PyStr(code_points) == [type |-> "str", value |-> code_points]
PyBytes(bytes) == [type |-> "bytes", value |-> bytes]
PyInt(n) == [type |-> "int", value |-> <<n>>]
PyDict(items) == [type |-> "dict", value |-> items]

\* data[a:b] of Python: the bounds are clamped to the data
Slice(data, a, b) == SubSeq(data, Min(a, Len(data)) + 1, Min(b, Len(data)))

\* struct.unpack('>I', four bytes)
U32(bytes) == ((bytes[1] * 256 + bytes[2]) * 256 + bytes[3]) * 256 + bytes[4]

\* struct.unpack('>H', two bytes)
U16(bytes) == bytes[1] * 256 + bytes[2]

\* bytes.decode('utf-8') succeeds.  The bytes of the model are ASCII or 255,
\* and 255 occurs in no UTF-8 text.
Utf8Valid(bytes) == \A i \in DOMAIN bytes : bytes[i] < 128

\* bytes.decode('utf-8') of valid bytes: ASCII bytes are their code points
Utf8Decode(bytes) == PyStr(bytes)

\* The JSON texts of the model and the values json.loads gives for them:
\* 1, "a", {"a":1}.  No other byte string made of the bytes of the model and
\* cut out of a frame of the model is a JSON text.
JsonTexts ==
    { [text |-> <<49>>, value |-> PyInt(1)],
      [text |-> <<34, 97, 34>>, value |-> PyStr(<<97>>)],
      [text |-> <<123, 34, 97, 34, 58, 49, 125>>, value |-> PyDict(<<97, 1>>)] }

IsJsonText(bytes) == \E j \in JsonTexts : j.text = bytes

\* json.loads(text) of a JSON text
JsonLoads(bytes) == (CHOOSE j \in JsonTexts : j.text = bytes).value

\* Mutant of DecodePayload: the payload is never parsed as JSON.
DecodePayload_Raw(payload_data) ==
    IF payload_data = <<>> THEN PyNone ELSE PyBytes(payload_data)

\* "payload = None; if payload_data: try json.loads(payload_data.decode('utf-8'))
\*  except (JSONDecodeError, UnicodeDecodeError): payload = payload_data"
DecodePayload(payload_data) ==
    IF payload_data = <<>> THEN PyNone
    ELSE IF Utf8Valid(payload_data) /\ IsJsonText(payload_data)
         THEN JsonLoads(payload_data)
         ELSE PyBytes(payload_data)

NoHeaders == [name \in {} |-> PyNone]

\* The result of parse_headers: the dict, or the exception decode() raised.
HeadersOk(headers) == [raised |-> FALSE, headers |-> headers]
HeadersRaised == [raised |-> TRUE, headers |-> NoHeaders]

RECURSIVE HeaderLoop(_, _, _)
\* The while loop of parse_headers, from offset on.
HeaderLoop(headers_data, offset, headers) ==
    IF offset >= Len(headers_data) THEN HeadersOk(headers)
    ELSE
    LET name_length == headers_data[offset + 1]
        name_at == offset + 1
        name_bytes == Slice(headers_data, name_at, name_at + name_length)
        type_at == name_at + name_length
        length_at == type_at + 1
        value_at == length_at + 2
    IN  IF name_at + name_length > Len(headers_data) THEN HeadersOk(headers)
        ELSE IF ~Utf8Valid(name_bytes) THEN HeadersRaised
        ELSE IF type_at >= Len(headers_data) THEN HeadersOk(headers)
        ELSE IF length_at + 2 > Len(headers_data) THEN HeadersOk(headers)
        ELSE
        LET value_type == headers_data[type_at + 1]
            value_length == U16(Slice(headers_data, length_at, length_at + 2))
            value_bytes == Slice(headers_data, value_at, value_at + value_length)
        IN  IF value_at + value_length > Len(headers_data) THEN HeadersOk(headers)
            ELSE IF value_type = 7 /\ ~Utf8Valid(value_bytes) THEN HeadersRaised
            ELSE HeaderLoop(headers_data, value_at + value_length,
                            Store(headers, Utf8Decode(name_bytes),
                                  IF value_type = 7 THEN Utf8Decode(value_bytes)
                                  ELSE PyBytes(value_bytes)))

\* EventStreamParser.parse_headers
parse_headers(headers_data) == HeaderLoop(headers_data, 0, NoHeaders)

\* EventStreamParser.parse_message: <<>> for None, <<message>> otherwise.
parse_message(data) ==
    IF Len(data) < 16 THEN <<>>
    ELSE
    LET total_length == U32(Slice(data, 0, 4))
        headers_length == U32(Slice(data, 4, 8))
        parsed == parse_headers(Slice(data, 12, 12 + headers_length))
        payload_data == Slice(data, 12 + headers_length, total_length - 4)
    IN  IF Len(data) < total_length THEN <<>>
        ELSE IF parsed.raised THEN <<>>
        ELSE << [headers |-> parsed.headers,
                 payload |-> DecodePayload(payload_data),
                 total_length |-> total_length] >>

\* What the while loop of parse_stream leaves: the buffer, the messages
\* yielded, and whether the loop goes on for ever.
Drained(buf, msgs, looping) == [buffer |-> buf, messages |-> msgs, looping |-> looping]

RECURSIVE Drain_NoWait(_, _)
\* Mutant of Drain: the frame is cut without waiting for all its bytes.
Drain_NoWait(buf, msgs) ==
    IF Len(buf) < 12 THEN Drained(buf, msgs, FALSE)
    ELSE LET total_length == U32(Slice(buf, 0, 4))
         IN IF total_length = 0 THEN Drained(buf, msgs, TRUE)
            ELSE Drain_NoWait(Slice(buf, total_length, Len(buf)),
                              msgs \o parse_message(Slice(buf, 0, total_length)))

RECURSIVE Drain(_, _)
\* "while len(buffer) >= 12" of parse_stream.  With total_length 0 the loop
\* cuts nothing off the buffer, gets None from parse_message and repeats.
Drain(buf, msgs) ==
    IF Len(buf) < 12 THEN Drained(buf, msgs, FALSE)
    ELSE LET total_length == U32(Slice(buf, 0, 4))
         IN IF Len(buf) < total_length THEN Drained(buf, msgs, FALSE)
            ELSE IF total_length = 0 THEN Drained(buf, msgs, TRUE)
            ELSE Drain(Slice(buf, total_length, Len(buf)),
                       msgs \o parse_message(Slice(buf, 0, total_length)))

(***************************************************************************)
(* The frames of the upstream body.  The repository holds no encoder: the  *)
(* frames are written in the layout the decoder reads,                     *)
(* u32 totalLength | u32 headersLength | u32 preludeCrc | headers |        *)
(* payload | u32 messageCrc, a header being                                *)
(* u8 nameLen | name | u8 valueType | u16 valueLength | value.             *)
(***************************************************************************)
PutU32(n) == <<n \div 16777216, (n \div 65536) % 256, (n \div 256) % 256, n % 256>>

PutU16(n) == <<n \div 256, n % 256>>

\* A checksum of four bytes; the decoder reads none of them.
Crc(bytes) == PutU32(Len(bytes) * 7 + 3)

\* json.dumps(value) of a JSON value of the model
JsonDumps(value) == (CHOOSE j \in JsonTexts : j.value = value).text

\* The bytes of a payload: nothing for None, the bytes of bytes, the JSON
\* text of any other value.
EncodePayload(payload) ==
    IF payload.type = "NoneType" THEN <<>>
    ELSE IF payload.type = "bytes" THEN payload.value
    ELSE JsonDumps(payload)

\* One header: a str value has type 7, a bytes value type 6.
EncodeHeader(name, value) ==
    <<Len(name.value)>> \o name.value
        \o <<IF value.type = "str" THEN 7 ELSE 6>>
        \o PutU16(Len(value.value)) \o value.value

RECURSIVE EncodeHeaders(_, _)
EncodeHeaders(headers, names) ==
    IF names = {} THEN <<>>
    ELSE LET name == CHOOSE n \in names : TRUE
         IN EncodeHeader(name, headers[name]) \o EncodeHeaders(headers, names \ {name})

EncodeFrame(headers, payload) ==
    LET headers_data == EncodeHeaders(headers, DOMAIN headers)
        payload_data == EncodePayload(payload)
        prelude == PutU32(16 + Len(headers_data) + Len(payload_data))
                       \o PutU32(Len(headers_data))
        body == prelude \o Crc(prelude) \o headers_data \o payload_data
    IN body \o Crc(body)

RECURSIVE EncodeAll(_)
\* The frames of a list of (headers, payload) pairs, concatenated.
EncodeAll(pairs) ==
    IF pairs = <<>> THEN <<>>
    ELSE EncodeFrame(pairs[1].headers, pairs[1].payload) \o EncodeAll(Tail(pairs))

Pair(headers, payload) == [headers |-> headers, payload |-> payload]

\* Headers: none; one str value; a str and a bytes value.
EventHeader == Store(NoHeaders, PyStr(<<101>>), PyStr(<<116>>))
TwoHeaders == Store(EventHeader, PyStr(<<98>>), PyBytes(<<255, 0>>))

\* Payloads that are JSON values, or bytes that are no JSON text.
PlainPairs ==
    { Pair(NoHeaders, PyNone),
      Pair(EventHeader, PyInt(1)),
      Pair(EventHeader, PyDict(<<97, 1>>)),
      Pair(TwoHeaders, PyStr(<<97>>)),
      Pair(TwoHeaders, PyBytes(<<120, 255>>)) }

\* Payloads of bytes that are empty, or that are the text of a JSON value.
OddPairs ==
    { Pair(EventHeader, PyBytes(<<>>)),
      Pair(EventHeader, PyBytes(<<49>>)) }

Pairs == PlainPairs \cup OddPairs

RECURSIVE Lists(_, _)
\* The lists of at most n elements of a set
Lists(set, n) ==
    IF n = 0 THEN {<<>>}
    ELSE LET shorter == Lists(set, n - 1)
         IN shorter \cup {Append(l, e) : l \in shorter, e \in set}

\* Bodies that were not made by an encoder: a frame of 12 and one of 5
\* bytes, a frame whose header name is no UTF-8, a frame whose headers end
\* inside the name of an entry, a frame whose headersLength runs past its
\* end, a frame cut short, and a totalLength of 0.
GoodFrame == EncodeFrame(EventHeader, PyInt(1))
Frame12 == PutU32(12) \o <<120, 120, 120, 120, 120, 120, 120, 120>>
Frame5 == PutU32(5) \o <<120>>
BadNameFrame ==
    PutU32(22) \o PutU32(6) \o <<0, 0, 0, 0>> \o <<1, 255, 7, 0, 1, 116>> \o <<0, 0, 0, 0>>
LongHeadersFrame ==
    PutU32(23) \o PutU32(200) \o <<0, 0, 0, 0>> \o <<1, 101, 7, 0, 1, 116, 49>>
        \o <<0, 0, 0, 0>>
TruncatedHeaderFrame ==
    PutU32(20) \o PutU32(4) \o <<0, 0, 0, 0>> \o <<5, 101, 102, 103>> \o <<0, 0, 0, 0>>
ZeroFrame == <<0, 0, 0, 0, 0, 0, 0, 0, 0, 0, 0, 0>>

OtherBodies ==
    { GoodFrame \o Frame12 \o GoodFrame,
      Frame5 \o GoodFrame,
      BadNameFrame \o GoodFrame,
      GoodFrame \o TruncatedHeaderFrame \o GoodFrame,
      LongHeadersFrame \o GoodFrame,
      GoodFrame \o SubSeq(GoodFrame, 1, Len(GoodFrame) - 3),
      GoodFrame \o ZeroFrame \o GoodFrame }

Encoded(pairs) == [encoded |-> TRUE, pairs |-> pairs]
NotEncoded == [encoded |-> FALSE, pairs |-> <<>>]

\* parse_stream is called with the body of a response.
parse_stream ==
    /\ parser_pc = "start"
    /\ \/ \E pairs \in Lists(Pairs, MaxFrames) :
            /\ byte_stream' = EncodeAll(pairs)
            /\ origin' = Encoded(pairs)
       \/ \E body \in OtherBodies :
            /\ byte_stream' = body
            /\ origin' = NotEncoded
    /\ parser_pc' = "reading"
    /\ UNCHANGED <<delivered, buffer, messages>>
    /\ UNCHANGED notParserVars

\* "async for chunk in byte_stream: buffer.extend(chunk)" and the while loop
Feed(n) ==
    LET chunk == SubSeq(byte_stream, 1, n)
        after == Drain(buffer \o chunk, <<>>)
    IN /\ byte_stream' = SubSeq(byte_stream, n + 1, Len(byte_stream))
       /\ delivered' = delivered \o chunk
       /\ buffer' = after.buffer
       /\ messages' = messages \o after.messages
       /\ parser_pc' = IF after.looping THEN "looping" ELSE "reading"
       /\ UNCHANGED origin

\* The next chunk is a part of the body, of MaxChunk bytes at most.
next_chunk ==
    /\ parser_pc = "reading"
    /\ \E n \in 1..Min(MaxChunk, Len(byte_stream)) : Feed(n)
    /\ UNCHANGED notParserVars

\* The next chunk is all the rest of the body.
last_chunk ==
    /\ parser_pc = "reading"
    /\ byte_stream # <<>>
    /\ Feed(Len(byte_stream))
    /\ UNCHANGED notParserVars

\* byte_stream is exhausted: parse_stream ends.
end_of_stream ==
    /\ parser_pc = "reading"
    /\ byte_stream = <<>>
    /\ parser_pc' = "done"
    /\ UNCHANGED <<byte_stream, delivered, buffer, messages, origin>>
    /\ UNCHANGED notParserVars

ParserInit ==
    /\ byte_stream = <<>>
    /\ delivered = <<>>
    /\ buffer = <<>>
    /\ messages = <<>>
    /\ parser_pc = "start"
    /\ origin = NotEncoded

ParserNext ==
    \/ parse_stream
    \/ next_chunk
    \/ last_chunk
    \/ end_of_stream

(***************************************************************************)
(* Request converter (converter.py).  Python values are the records        *)
(* [type, value] of the decoder; here a dict holds a function from its     *)
(* keys to values and a list holds the sequence of its items.  A text is   *)
(* the sequence of its characters; a block type, an id or a fixed phrase,  *)
(* which the converter never takes apart, is held as a single element.     *)
(* Raised is the outcome of a call that ended with an exception.           *)
(***************************************************************************)
PyList(items) == [type |-> "list", value |-> items]
Raised == [type |-> "raised", value |-> <<>>]
IsRaised(v) == v.type = "raised"

\* d.get(key, default)
DictGet(d, key, default) == IF key \in DOMAIN d.value THEN d.value[key] ELSE default

\* v == "word"
IsWord(v, word) == v.type = "str" /\ v.value = <<word>>

\* isinstance(block, dict) and block.get("type") == word
IsBlock(block, word) == block.type = "dict" /\ IsWord(DictGet(block, "type", PyNone), word)

\* bool(v) of a value of the request
PyBool(v) ==
    CASE v.type = "NoneType" -> FALSE
      [] v.type = "int" -> v.value # <<0>>
      [] v.type = "dict" -> DOMAIN v.value # {}
      [] OTHER -> v.value # <<>>

RECURSIVE JoinTexts(_, _)
JoinTexts(sep, texts) ==
    IF texts = <<>> THEN <<>>
    ELSE IF Len(texts) = 1 THEN texts[1]
    ELSE texts[1] \o sep \o JoinTexts(sep, Tail(texts))

\* sep.join(parts): TypeError unless every part is a str
str_join(sep, parts) ==
    IF \E i \in DOMAIN parts : parts[i].type # "str" THEN Raised
    ELSE PyStr(JoinTexts(sep, [i \in DOMAIN parts |-> parts[i].value]))

\* text_parts of a content list: block.get("text", "") of its text blocks
TextParts(blocks) ==
    LET IsText(block) == IsBlock(block, "text")
        text_blocks == SelectSeq(blocks, IsText)
    IN [i \in DOMAIN text_blocks |-> DictGet(text_blocks[i], "text", PyStr(<<>>))]

extract_text_from_content(content) ==
    IF content.type = "str" THEN content
    ELSE IF content.type = "list" THEN str_join(<<"\n">>, TextParts(content.value))
    ELSE PyStr(<<>>)

\* media_type.split("/")[-1]
AfterLastSlash(text) ==
    LET slashes == {i \in DOMAIN text : text[i] = "/"}
        last == CHOOSE i \in slashes : \A j \in slashes : j <= i
    IN SubSeq(text, last + 1, Len(text))

\* fmt of an image source: `"/" in media_type` is a TypeError on None or an
\* int, a membership test on a list or a dict, after which split() is an
\* AttributeError
ImageFormat(media_type) ==
    CASE media_type.type = "str" ->
             IF \E i \in DOMAIN media_type.value : media_type.value[i] = "/"
             THEN PyStr(AfterLastSlash(media_type.value)) ELSE PyStr(<<"png">>)
      [] media_type.type = "list" ->
             IF \E i \in DOMAIN media_type.value : IsWord(media_type.value[i], "/")
             THEN Raised ELSE PyStr(<<"png">>)
      [] media_type.type = "dict" ->
             IF "/" \in DOMAIN media_type.value THEN Raised ELSE PyStr(<<"png">>)
      [] OTHER -> Raised

Image(fmt, data) == [format |-> fmt, bytes |-> data]

\* One image block of extract_images_from_content: the image appended,
\* PyNone when none is, Raised when source has no get()
ImageOf(block) ==
    LET source == DictGet(block, "source", PyDict(<<>>))
    IN IF source.type # "dict" THEN Raised
       ELSE IF ~IsWord(DictGet(source, "type", PyNone), "base64") THEN PyNone
       ELSE LET fmt == ImageFormat(DictGet(source, "media_type",
                                           PyStr(<<"image", "/", "png">>)))
            IN IF IsRaised(fmt) THEN Raised
               ELSE PyDict(Image(fmt, DictGet(source, "data", PyStr(<<>>))))

\* The list of images of a content, PyNone when there is none
extract_images_from_content(content) ==
    IF content.type # "list" THEN PyNone
    ELSE LET IsImage(block) == IsBlock(block, "image")
             image_blocks == SelectSeq(content.value, IsImage)
             results == [i \in DOMAIN image_blocks |-> ImageOf(image_blocks[i])]
             IsAppended(r) == r.type = "dict"
             images == SelectSeq(results, IsAppended)
         IN IF \E i \in DOMAIN results : IsRaised(results[i]) THEN Raised
            ELSE IF images = <<>> THEN PyNone
            ELSE PyList([i \in DOMAIN images |-> images[i].value])

Whitespace == {" ", "\t", "\n", "\r"}

\* Nothing was appended for this item
Nothing == [type |-> "nothing", value |-> <<>>]

\* The texts of aq_content, before the check for an empty result
AqContent(raw_c) ==
    IF raw_c.type = "str" THEN <<raw_c>>
    ELSE IF raw_c.type = "list"
    THEN LET ItemText(item) ==
                 IF item.type = "dict"
                 THEN IF IsWord(DictGet(item, "type", PyNone), "text")
                      THEN DictGet(item, "text", PyStr(<<>>))
                      ELSE IF "text" \in DOMAIN item.value THEN item.value["text"]
                      ELSE Nothing
                 ELSE IF item.type = "str" THEN item
                 ELSE Nothing
             IsAppended(t) == t # Nothing
         IN SelectSeq([i \in DOMAIN raw_c.value |-> ItemText(raw_c.value[i])], IsAppended)
    ELSE <<>>

RECURSIVE AnyText(_)
\* any(i.get("text", "").strip() for i in aq_content): stops at the first
\* text that is not blank; AttributeError on a text that has no strip()
AnyText(texts) ==
    IF texts = <<>> THEN "False"
    ELSE IF Head(texts).type # "str" THEN "raised"
    ELSE IF \E i \in DOMAIN Head(texts).value : Head(texts).value[i] \notin Whitespace
    THEN "True"
    ELSE AnyText(Tail(texts))

Cancelled == PyStr(<<"Tool use was cancelled by the user">>)

ToolResult(tool_use_id, content, status) ==
    [toolUseId |-> tool_use_id, content |-> content, status |-> status]

\* tool_results after process_tool_result_block(block, tool_results), or Raised
process_tool_result_block(block, tool_results) ==
    LET tool_use_id == DictGet(block, "tool_use_id", PyNone)
        collected == AqContent(DictGet(block, "content", PyList(<<>>)))
        any == AnyText(collected)
        aq_content == IF any = "False" THEN <<Cancelled>> ELSE collected
        existing == {i \in DOMAIN tool_results : tool_results[i].toolUseId = tool_use_id}
    IN IF any = "raised" THEN Raised
       ELSE IF existing # {}
       THEN LET first == CHOOSE i \in existing : \A j \in existing : i <= j
            IN PyList([tool_results EXCEPT ![first].content = @ \o aq_content])
       ELSE PyList(Append(tool_results,
                          ToolResult(tool_use_id, aq_content,
                                     DictGet(block, "status", PyStr(<<"success">>)))))

RECURSIVE ToolResults(_, _)
\* tool_results after the tool_result blocks of a content list, or Raised
ToolResults(blocks, tool_results) ==
    IF blocks = <<>> THEN PyList(tool_results)
    ELSE IF IsBlock(Head(blocks), "tool_result")
    THEN LET processed == process_tool_result_block(Head(blocks), tool_results)
         IN IF IsRaised(processed) THEN Raised
            ELSE ToolResults(Tail(blocks), processed.value)
    ELSE ToolResults(Tail(blocks), tool_results)

\* A history entry {"userInputMessage": ...}: its content, the toolResults of
\* its userInputMessageContext and its images, each empty when the key is
\* absent
UserInputMessage(content, tool_results, images) ==
    [kind |-> "userInputMessage", content |-> content,
     toolResults |-> tool_results, images |-> images]

\* A history entry {"assistantResponseMessage": ...}; its messageId, a fresh
\* uuid4, is left out
AssistantResponseMessage(content, tool_uses) ==
    [kind |-> "assistantResponseMessage", content |-> content, toolUses |-> tool_uses]

\* The text, tool results and images read from the content of a user
\* message (process_history 208-240, convert_claude_to_amazonq_request
\* 324-341), or Raised
UserContent(content) ==
    LET images == extract_images_from_content(content)
        tool_results == IF content.type = "list" THEN ToolResults(content.value, <<>>)
                        ELSE PyList(<<>>)
        text_content == extract_text_from_content(content)
    IN IF IsRaised(images) \/ IsRaised(tool_results) \/ IsRaised(text_content) THEN Raised
       ELSE PyDict([text |-> text_content.value,
                    tool_results |-> tool_results.value,
                    images |-> IF images.type = "list" THEN images.value ELSE <<>>])

ToolUse(tid, name, input) == [toolUseId |-> tid, name |-> name, input |-> input]

\* Mutant of Seen: no id counts as seen.
Seen_Never(tid, seen_tool_use_ids) == FALSE

\* tid in seen_tool_use_ids
Seen(tid, seen_tool_use_ids) == tid \in seen_tool_use_ids

RECURSIVE ToolUses(_, _, _)
\* The loop over the tool_use blocks of an assistant message: the tool_uses
\* collected and seen_tool_use_ids after it; `tid not in seen_tool_use_ids`
\* is a TypeError on an unhashable tid
ToolUses(blocks, seen_tool_use_ids, tool_uses) ==
    IF blocks = <<>>
    THEN [type |-> "ok", seen |-> seen_tool_use_ids, tool_uses |-> tool_uses]
    ELSE LET block == Head(blocks)
             tid == DictGet(block, "id", PyNone)
         IN IF ~IsBlock(block, "tool_use") \/ ~PyBool(tid)
            THEN ToolUses(Tail(blocks), seen_tool_use_ids, tool_uses)
            ELSE IF tid.type \in {"list", "dict"} THEN Raised
            ELSE IF Seen(tid, seen_tool_use_ids)
            THEN ToolUses(Tail(blocks), seen_tool_use_ids, tool_uses)
            ELSE ToolUses(Tail(blocks), seen_tool_use_ids \cup {tid},
                          Append(tool_uses,
                                 ToolUse(tid, DictGet(block, "name", PyNone),
                                         DictGet(block, "input", PyDict(<<>>)))))

\* "\n\n".join(all_contents) and the rest of merge_user_messages: the context
\* is the first message's, the images are those of the last two messages
\* that have any
merge_user_messages(msgs) ==
    LET HasContent(msg) == msg.content # <<>>
        with_content == SelectSeq(msgs, HasContent)
        all_contents == [i \in DOMAIN with_content |-> with_content[i].content]
        HasImages(msg) == msg.images # <<>>
        with_images == SelectSeq(msgs, HasImages)
        all_images == [i \in DOMAIN with_images |-> with_images[i].images]
        kept_images == Flatten(SubSeq(all_images, Max(1, Len(all_images) - 1),
                                      Len(all_images)))
    IN UserInputMessage(JoinTexts(<<"\n", "\n">>, all_contents),
                        msgs[1].toolResults, kept_images)

RECURSIVE RawHistory(_, _, _)
\* First pass of process_history: raw_history, or Raised
RawHistory(msgs, seen_tool_use_ids, raw_history) ==
    IF msgs = <<>> THEN PyList(raw_history)
    ELSE LET msg == Head(msgs)
         IN IF msg.role = "user"
            THEN LET read == UserContent(msg.content)
                 IN IF IsRaised(read) THEN Raised
                    ELSE RawHistory(Tail(msgs), seen_tool_use_ids,
                                    Append(raw_history,
                                           UserInputMessage(read.value.text,
                                                            read.value.tool_results,
                                                            read.value.images)))
            ELSE IF msg.role = "assistant"
            THEN LET text_content == extract_text_from_content(msg.content)
                     uses == IF msg.content.type = "list"
                             THEN ToolUses(msg.content.value, seen_tool_use_ids, <<>>)
                             ELSE [type |-> "ok", seen |-> seen_tool_use_ids,
                                   tool_uses |-> <<>>]
                 IN IF IsRaised(text_content) \/ IsRaised(uses) THEN Raised
                    ELSE RawHistory(Tail(msgs), uses.seen,
                                    Append(raw_history,
                                           AssistantResponseMessage(text_content.value,
                                                                    uses.tool_uses)))
            ELSE RawHistory(Tail(msgs), seen_tool_use_ids, raw_history)

\* Mutant of the second pass: the pending user messages are appended as
\* they are.
Flushed_Unmerged(history, pending_user_msgs) == history \o pending_user_msgs

\* history with the pending user messages merged into it
Flushed(history, pending_user_msgs) ==
    IF pending_user_msgs # <<>>
    THEN Append(history, merge_user_messages(pending_user_msgs))
    ELSE history

RECURSIVE MergePass(_, _, _)
\* Second pass of process_history
MergePass(raw_history, pending_user_msgs, history) ==
    IF raw_history = <<>> THEN Flushed(history, pending_user_msgs)
    ELSE IF Head(raw_history).kind = "userInputMessage"
    THEN MergePass(Tail(raw_history), Append(pending_user_msgs, Head(raw_history)), history)
    ELSE MergePass(Tail(raw_history), <<>>,
                   Append(Flushed(history, pending_user_msgs), Head(raw_history)))

\* The history, or Raised
process_history(msgs) ==
    LET raw_history == RawHistory(msgs, {}, <<>>)
    IN IF IsRaised(raw_history) THEN Raised
       ELSE PyList(MergePass(raw_history.value, <<>>, <<>>))

\* str.lower() on the letters of a model name
LowerOf ==
    [A |-> "a", B |-> "b", C |-> "c", D |-> "d", E |-> "e", F |-> "f", G |-> "g",
     H |-> "h", I |-> "i", J |-> "j", K |-> "k", L |-> "l", M |-> "m", N |-> "n",
     O |-> "o", P |-> "p", Q |-> "q", R |-> "r", S |-> "s", T |-> "t", U |-> "u",
     V |-> "v", W |-> "w", X |-> "x", Y |-> "y", Z |-> "z"]

Lower(text) ==
    [i \in DOMAIN text |-> IF text[i] \in DOMAIN LowerOf THEN LowerOf[text[i]] ELSE text[i]]

Sonnet4 == <<"c", "l", "a", "u", "d", "e", "-", "s", "o", "n", "n", "e", "t", "-", "4">>

Sonnet45 == Sonnet4 \o <<".", "5">>

Sonnet4Dash5 == Sonnet4 \o <<"-", "5">>

\* Mutant of map_model_name: the name is compared as it was given.
map_model_name_CaseSensitive(claude_model) ==
    IF StartsWith(claude_model, Sonnet45) \/ StartsWith(claude_model, Sonnet4Dash5)
    THEN Sonnet45 ELSE Sonnet4

map_model_name(claude_model) ==
    LET model_lower == Lower(claude_model)
    IN IF StartsWith(model_lower, Sonnet45) \/ StartsWith(model_lower, Sonnet4Dash5)
       THEN Sonnet45 ELSE Sonnet4

\* len(t.description) > 10240
MaxDescription == 10240

\* A tool of the request: its name and the length of its description
ClaudeTool(name, description_length) ==
    [name |-> name, description_length |-> description_length]

\* convert_tool: the description is cut when it is longer than MaxDescription
convert_tool(tool) ==
    [name |-> tool.name, truncated |-> tool.description_length > MaxDescription]

ClaudeMessage(role, content) == [role |-> role, content |-> content]

ClaudeRequest(model, msgs, system, tools) ==
    [model |-> model, messages |-> msgs, system |-> system, tools |-> tools]

\* get_current_timestamp(): one element of the text
Timestamp == "now"

\* The text between the CONTEXT ENTRY and USER MESSAGE markers
UserMessageText(prompt_content) ==
    <<"--- CONTEXT ENTRY BEGIN ---\nCurrent time: ", Timestamp,
      "\n--- CONTEXT ENTRY END ---\n\n--- USER MESSAGE BEGIN ---\n">>
    \o prompt_content \o <<"\n--- USER MESSAGE END ---">>

ToolDocumentation(long_desc_tools, formatted_content) ==
    <<"--- TOOL DOCUMENTATION BEGIN ---\n">>
    \o Flatten([i \in DOMAIN long_desc_tools |->
                   <<"Tool: ", long_desc_tools[i].name, "\nFull Description:\n",
                     "full_description", "\n">>])
    \o <<"--- TOOL DOCUMENTATION END ---\n\n">> \o formatted_content

SystemPrompt(sys_text, formatted_content) ==
    <<"--- SYSTEM PROMPT BEGIN ---\n">> \o sys_text
    \o <<"\n--- SYSTEM PROMPT END ---\n\n">> \o formatted_content

\* sys_text of a request whose system is set, or Raised
SysText(system) ==
    IF system.type = "str" THEN system
    ELSE IF system.type = "list" THEN str_join(<<"\n">>, TextParts(system.value))
    ELSE PyStr(<<>>)

AqRequest(history, content, tools, tool_results, images, model_id) ==
    [type |-> "dict",
     history |-> history,
     currentMessage |-> [content |-> content, tools |-> tools,
                         toolResults |-> tool_results, images |-> images,
                         modelId |-> model_id]]

\* The request body, or Raised
convert_claude_to_amazonq_request(request) ==
    LET IsLong(t) == t.description_length > MaxDescription
        long_desc_tools == SelectSeq(request.tools, IsLong)
        aq_tools == [i \in DOMAIN request.tools |-> convert_tool(request.tools[i])]
        msgs == request.messages
        from_user == msgs # <<>> /\ msgs[Len(msgs)].role = "user"
        read == IF from_user THEN UserContent(msgs[Len(msgs)].content)
                ELSE PyDict([text |-> <<>>, tool_results |-> <<>>, images |-> <<>>])
        has_tool_result ==
            /\ from_user
            /\ msgs[Len(msgs)].content.type = "list"
            /\ \E i \in DOMAIN msgs[Len(msgs)].content.value :
                   IsBlock(msgs[Len(msgs)].content.value[i], "tool_result")
        body(prompt_content) ==
            IF has_tool_result /\ prompt_content = <<>> THEN <<>>
            ELSE UserMessageText(prompt_content)
        documented(prompt_content) ==
            IF long_desc_tools # <<>>
            THEN ToolDocumentation(long_desc_tools, body(prompt_content))
            ELSE body(prompt_content)
        with_system(prompt_content) ==
            PyBool(request.system) /\ documented(prompt_content) # <<>>
        sys_text(prompt_content) ==
            IF with_system(prompt_content) THEN SysText(request.system) ELSE PyStr(<<>>)
        formatted_content(prompt_content) ==
            IF sys_text(prompt_content).value # <<>>
            THEN SystemPrompt(sys_text(prompt_content).value, documented(prompt_content))
            ELSE documented(prompt_content)
        aq_history == process_history(IF Len(msgs) > 1 THEN SubSeq(msgs, 1, Len(msgs) - 1)
                                      ELSE <<>>)
    IN IF IsRaised(read) THEN Raised
       ELSE IF IsRaised(sys_text(read.value.text)) THEN Raised
       ELSE IF IsRaised(aq_history) THEN Raised
       ELSE AqRequest(aq_history.value, formatted_content(read.value.text), aq_tools,
                      read.value.tool_results, read.value.images,
                      map_model_name(request.model))

\* ---- The requests given to the converter ----
MaxMsgs == 3

Word(word) == PyStr(<<word>>)

TextBlock(text) == PyDict([type |-> Word("text"), text |-> text])

ToolResultBlock(tool_use_id, content) ==
    PyDict([type |-> Word("tool_result"), tool_use_id |-> tool_use_id, content |-> content])

ImageBlock(source) == PyDict([type |-> Word("image"), source |-> source])

ToolUseBlock(id) ==
    PyDict([type |-> Word("tool_use"), id |-> id, name |-> Word("n"), input |-> PyDict(<<>>)])

Png == PyDict([type |-> Word("base64"), media_type |-> PyStr(<<"image", "/", "png">>),
               data |-> Word("d")])

\* Messages whose blocks have every field, of the type the API documents
WellFormed ==
    { ClaudeMessage("user", PyStr(<<"a">>)),
      ClaudeMessage("user", PyStr(<<>>)),
      ClaudeMessage("user", PyList(<<TextBlock(PyStr(<<"b">>)), TextBlock(PyStr(<<"c">>))>>)),
      ClaudeMessage("user", PyList(<<ToolResultBlock(Word("t1"), PyStr(<<"r">>))>>)),
      ClaudeMessage("user", PyList(<<ImageBlock(Png)>>)),
      ClaudeMessage("assistant", PyStr(<<"x">>)),
      ClaudeMessage("assistant", PyList(<<TextBlock(PyStr(<<"y">>)), ToolUseBlock(Word("t1")),
                                          ToolUseBlock(Word("t2")), ToolUseBlock(Word("t1"))>>)),
      ClaudeMessage("system", PyStr(<<"s">>)) }

\* Messages whose content is a list of dicts with a field missing, null or
\* of another type, or with a block of an unknown type
Malformed ==
    { ClaudeMessage("user", PyList(<<TextBlock(PyNone)>>)),
      ClaudeMessage("user", PyList(<<PyDict([type |-> Word("text")]),
                                     PyDict([type |-> Word("video")])>>)),
      ClaudeMessage("user", PyList(<<ImageBlock(PyNone)>>)),
      ClaudeMessage("user", PyList(<<ToolResultBlock(Word("t1"),
                                                     PyList(<<TextBlock(PyNone)>>))>>)),
      ClaudeMessage("user", PyList(<<PyDict([type |-> Word("tool_result")])>>)),
      ClaudeMessage("assistant", PyList(<<ToolUseBlock(PyList(<<PyInt(1)>>))>>)) }

Messages == WellFormed \cup Malformed

MessageLists == Lists(Messages, MaxMsgs)

Systems == {PyNone, PyStr(<<"s">>)}

ToolLists == {<<>>, <<ClaudeTool("t", MaxDescription + 1)>>}

\* The upper-case letter of each lower-case letter
UpperOf ==
    [a |-> "A", b |-> "B", c |-> "C", d |-> "D", e |-> "E", f |-> "F", g |-> "G",
     h |-> "H", i |-> "I", j |-> "J", k |-> "K", l |-> "L", m |-> "M", n |-> "N",
     o |-> "O", p |-> "P", q |-> "Q", r |-> "R", s |-> "S", t |-> "T", u |-> "U",
     v |-> "V", w |-> "W", x |-> "X", y |-> "Y", z |-> "Z"]

\* A name with the letters at some positions in upper case
Uppercased(text, positions) ==
    [i \in DOMAIN text |->
        IF i \in positions /\ text[i] \in DOMAIN UpperOf THEN UpperOf[text[i]] ELSE text[i]]

Opus45 == <<"c", "l", "a", "u", "d", "e", "-", "o", "p", "u", "s", "-", "4", ".", "5">>

\* Model names: the beginnings of four names, in several casings, alone or
\* with something before or after them
ModelNames ==
    {lead \o Uppercased(SubSeq(stem, 1, Min(n, Len(stem))), positions) \o tail :
        lead \in {<<>>, <<" ">>},
        stem \in {Sonnet45, Sonnet4Dash5, Opus45},
        n \in 0..Len(Sonnet45),
        positions \in {{}, {1}, {8}, {1, 8}, DOMAIN Sonnet45},
        tail \in {<<>>, <<"-", "2">>, <<"X">>}}

Requests ==
    {ClaudeRequest(Uppercased(Sonnet4Dash5, {1, 8}) \o <<"-", "2">>, msgs, system, tools) :
        msgs \in MessageLists, system \in Systems, tools \in ToolLists}

\* ---- Calls of the converter: a behaviour makes one call ----
call_process_history ==
    /\ converter_call = "none"
    /\ \E msgs \in MessageLists :
           /\ converter_arg' = msgs
           /\ converter_ret' = process_history(msgs)
    /\ converter_call' = "process_history"
    /\ UNCHANGED notConverterVars

call_convert_claude_to_amazonq_request ==
    /\ converter_call = "none"
    /\ \E request \in Requests :
           /\ converter_arg' = request
           /\ converter_ret' = convert_claude_to_amazonq_request(request)
    /\ converter_call' = "convert_claude_to_amazonq_request"
    /\ UNCHANGED notConverterVars

call_map_model_name ==
    /\ converter_call = "none"
    /\ \E claude_model \in ModelNames :
           /\ converter_arg' = claude_model
           /\ converter_ret' = PyStr(map_model_name(claude_model))
    /\ converter_call' = "map_model_name"
    /\ UNCHANGED notConverterVars

ConverterInit ==
    /\ converter_call = "none"
    /\ converter_arg = <<>>
    /\ converter_ret = PyNone

ConverterNext ==
    \/ call_process_history
    \/ call_convert_claude_to_amazonq_request
    \/ call_map_model_name

(***************************************************************************)
(* _parse_bearer_token on tokens of every shape                            *)
(***************************************************************************)
MaxToken == 6

\* The tokens of at most MaxToken characters over two letters and the colon
BearerTokens == Lists({"a", "b", ":"}, MaxToken)

call_parse_bearer_token ==
    /\ bearer_arg = NoneStr
    /\ \E token \in BearerTokens :
           /\ bearer_arg' = token
           /\ bearer_ret' = parse_bearer_token(token)
    /\ UNCHANGED notBearerVars

BearerInit ==
    /\ bearer_arg = NoneStr
    /\ bearer_ret = NoCreds

BearerNext == call_parse_bearer_token

(***************************************************************************)
(* Specifications                                                          *)
(***************************************************************************)
Init == StreamInit /\ ClientInit /\ AuthInit /\ ParserInit /\ ConverterInit /\ BearerInit

Next == StreamNext

Spec == Init /\ [][Next]_vars

ClientSpec == Init /\ [][ClientNext]_vars

AuthSpec == Init /\ [][AuthNext]_vars

ParserSpec == Init /\ [][ParserNext]_vars

\* parse_stream with its input delivered: the byte stream is finite, so the
\* "async for" receives every chunk and then the end of the stream.
ParserFairSpec == ParserSpec /\ WF_vars(ParserNext)

ConverterSpec == Init /\ [][ConverterNext]_vars

BearerSpec == Init /\ [][BearerNext]_vars

(***************************************************************************)
(* Properties of the stream handler's output                               *)
(***************************************************************************)
Positions(type) == { i \in DOMAIN sse : sse[i].type = type }

StartsBefore(i) == Cardinality({ j \in Positions("content_block_start") : j < i })

\* C1: after any sequence of handle_event calls followed by finish(), the
\* number of content_block_stop events emitted equals the number of
\* content_block_start events emitted.
C1_StopsEqualStarts ==
    finished =>
        Cardinality(Positions("content_block_stop"))
            = Cardinality(Positions("content_block_start"))

\* C2: no two content_block_start events occur without a content_block_stop
\* of the earlier block between them (at most one block is open at any
\* time), and once finish() has run every content_block_start is followed
\* by a content_block_stop of its block.
C2_AtMostOneBlockOpen ==
    /\ \A i, j \in Positions("content_block_start") :
          i < j => \E k \in Positions("content_block_stop") :
                      i < k /\ k < j /\ sse[k].index = sse[i].index
    /\ finished =>
          \A i \in Positions("content_block_start") :
              \E k \in Positions("content_block_stop") :
                  i < k /\ sse[k].index = sse[i].index

\* C2 witness: a text block and then a tool_use block were opened, and the
\* stream has ended.
C2_Witness ==
    /\ finished
    /\ \E i, j \in Positions("content_block_start") :
          i < j /\ sse[i].block = "text" /\ sse[j].block = "tool_use"

\* C3: the index values of the content_block_start events are 0, 1, 2, ...
\* in emission order: each start carries the number of starts before it.
C3_StartIndicesCount ==
    \A i \in Positions("content_block_start") : sse[i].index = StartsBefore(i)

\* C3 witness: three blocks have been opened.
C3_Witness == Cardinality(Positions("content_block_start")) >= 3

\* The upstream events are toolUseEvent(id, name), toolUseEvents that
\* carry an input fragment each, and toolUseEvent(stop=true).
IsToolRun(events) ==
    /\ Len(events) >= 2
    /\ \A i \in DOMAIN events : events[i].type = "toolUseEvent"
    /\ events[1].tool.toolUseId # None /\ events[1].tool.name # None
    /\ events[1].tool.input = NoInput /\ ~events[1].tool.stop
    /\ \A i \in 2..(Len(events) - 1) :
          /\ events[i].tool.toolUseId = None /\ events[i].tool.name = None
          /\ InputTruthy(events[i].tool.input) /\ ~events[i].tool.stop
    /\ events[Len(events)] = Event("toolUseEvent", <<>>, ToolPayload(None, None, NoInput, TRUE))

\* The input fragments of the events, concatenated in arrival order
Fragments(events) == Flatten([i \in DOMAIN events |-> events[i].tool.input.s])

\* The partial_json values of the input_json_delta events, concatenated
PartialJson(events) ==
    Flatten([i \in DOMAIN events |->
                IF events[i].delta = "input_json_delta" THEN events[i].text ELSE <<>>])

\* The aggregated response holds one block, the tool_use block id, name.
OneToolBlock(response, id, name) ==
    /\ Len(response.content) = 1
    /\ response.content[1].type = "tool_use"
    /\ response.content[1].id = id
    /\ response.content[1].name = name

\* C13: for toolUseEvent(id, name), toolUseEvents with the fragments f1..fn
\* and toolUseEvent(stop=true), the outbound stream holds exactly one
\* tool_use block, the partial_json values of its input_json_delta events
\* concatenated are f1..fn concatenated, and the aggregated response of the
\* non-streaming path holds that block with, as input, the JSON value
\* parsed from the concatenation.
C13_ToolInputAssembled ==
    (finished /\ IsToolRun(handled)) =>
        /\ Cardinality({i \in Positions("content_block_start") :
                            sse[i].block = "tool_use"}) = 1
        /\ Cardinality(Positions("content_block_start")) = 1
        /\ PartialJson(sse) = Fragments(handled)
        /\ IsJson(Fragments(handled)) =>
              /\ OneToolBlock(Aggregated(sse), handled[1].tool.toolUseId,
                              handled[1].tool.name)
              /\ Aggregated(sse).content[1].input = json_loads(Fragments(handled))

\* The content of the assistantResponseEvent events, concatenated in
\* arrival order
ContentOf(events) ==
    Flatten([i \in DOMAIN events |->
                IF events[i].type = "assistantResponseEvent" THEN events[i].content
                ELSE <<>>])

\* The text of the text blocks of a response, concatenated
TextOf(response) ==
    Flatten([i \in DOMAIN response.content |->
                IF response.content[i].type = "text" THEN response.content[i].text
                ELSE <<>>])

\* C14: in the non-streaming path the text of the text blocks of the
\* aggregated response, concatenated, is the content of all
\* assistantResponseEvent events concatenated in arrival order, for every
\* sequence of upstream events.
C14_AggregateTextComplete ==
    finished => TextOf(Aggregated(sse)) = ContentOf(handled)

\* C15: when the input text accumulated for a tool_use block is no valid
\* JSON at the close of the block, the aggregated response holds the block
\* with the raw accumulated text, verbatim, as its input.
C15_RawInputKept ==
    (finished /\ IsToolRun(handled) /\ Fragments(handled) # <<>>
         /\ ~IsJson(Fragments(handled))) =>
        /\ OneToolBlock(Aggregated(sse), handled[1].tool.toolUseId, handled[1].tool.name)
        /\ Aggregated(sse).content[1].input = RawText(Fragments(handled))

\* The content_block_start events of a stream that no later
\* content_block_stop of the same index follows: the blocks still open.
OpenStarts(events) ==
    { i \in DOMAIN events :
        /\ events[i].type = "content_block_start"
        /\ ~\E k \in DOMAIN events :
              k > i /\ events[k].type = "content_block_stop"
                    /\ events[k].index = events[i].index }

\* What a step appended to the outbound stream
Emitted == SubSeq(sse', Len(sse) + 1, Len(sse'))

\* C16: finish() emits a content_block_stop for the block that is still
\* open, if there is one, and then exactly one message_delta (with the
\* output-token usage, at least 1) immediately followed by exactly one
\* message_stop; these are the last two events of the outbound stream, and
\* nothing is emitted after them.
C16_FinishEndsTheStream ==
    [][ /\ (~finished /\ finished') =>
              /\ Len(sse') >= Len(sse) + 2
              /\ \A i \in OpenStarts(sse) :
                    Emitted[1] = build_content_block_stop(sse[i].index)
              /\ Len(Emitted) = IF OpenStarts(sse) = {} THEN 2 ELSE 3
              /\ sse'[Len(sse') - 1].type = "message_delta"
              /\ sse'[Len(sse') - 1].tokens >= 1
              /\ sse'[Len(sse')].type = "message_stop"
              /\ \A i \in DOMAIN sse : sse[i].type \notin {"message_delta", "message_stop"}
              /\ OpenStarts(sse') = {}
        /\ finished => (finished' /\ sse' = sse) ]_vars

\* finish() has run while a tool_use block was open: it closed the block
\* and ended the stream.
C16_Witness ==
    /\ finished
    /\ Len(handled) >= 2
    /\ handled[Len(handled)].type = "toolUseEvent"
    /\ ~handled[Len(handled)].tool.stop
    /\ handler.current_tool_use # NoToolUse
    /\ Len(sse) >= 4
    /\ sse[Len(sse) - 2].type = "content_block_stop"
    /\ sse[Len(sse) - 1].type = "message_delta"
    /\ sse[Len(sse)].type = "message_stop"

\* The step handles an upstream event of this type
Handles(type) ==
    /\ Len(handled') = Len(handled) + 1
    /\ handled'[Len(handled')].type = type

\* C24: whenever an assistantResponseEvent arrives while no text block is
\* open, the handler opens a new text block with the next index: it emits
\* content_block_start before any text delta.
C24_TextBlockOpenedForText ==
    [][ (/\ Handles("assistantResponseEvent")
         /\ \A i \in OpenStarts(sse) : sse[i].block # "text") =>
            \E k \in DOMAIN Emitted :
                /\ Emitted[k] = build_content_block_start(
                                    Cardinality(Positions("content_block_start")), "text")
                /\ \A m \in DOMAIN Emitted :
                       Emitted[m].type = "content_block_delta" => m > k ]_vars

RECURSIVE DeltaChars(_, _)
\* The number of characters of the deltas of one kind in a stream
DeltaChars(events, kind) ==
    IF events = <<>> THEN 0
    ELSE (IF Head(events).delta = kind THEN Len(Head(events).text) ELSE 0)
         + DeltaChars(Tail(events), kind)

\* C25: the output_tokens of the final message_delta is max(1, (T + U) div 4),
\* T the characters of all text deltas and U the characters of the input
\* fragments of all tool-use blocks of the stream, whichever way each
\* tool-use block was closed.
C25_OutputTokensCountAll ==
    finished =>
        sse[Len(sse) - 1].tokens =
            Max(1, (DeltaChars(sse, "text_delta") + DeltaChars(sse, "input_json_delta")) \div 4)

\* C26: message_start is emitted at most once per handler: the first
\* initial-response event emits message_start immediately followed by a
\* ping, and every later initial-response event emits nothing and changes
\* no state.
C26_MessageStartOnce ==
    [][ /\ Cardinality({i \in DOMAIN sse' : sse'[i].type = "message_start"}) <= 1
        /\ Handles("initial-response") =>
              IF \E i \in DOMAIN handled : handled[i].type = "initial-response"
              THEN Emitted = <<>> /\ handler' = handler
              ELSE /\ Len(Emitted) = 2
                   /\ Emitted[1].type = "message_start"
                   /\ Emitted[2] = build_ping ]_vars

\* Two initial-response events were handled, with other events between
\* them, and the stream holds one message_start
C26_Witness ==
    /\ Cardinality({i \in DOMAIN handled : handled[i].type = "initial-response"}) = 2
    /\ handled[1].type = "initial-response"
    /\ handled[Len(handled)].type = "initial-response"
    /\ Len(handled) >= 3
    /\ Cardinality(Positions("message_start")) = 1

\* The kind of delta a block of a type takes
DeltaOf(block) == IF block = "text" THEN "text_delta" ELSE "input_json_delta"

\* C33: every content_block_delta of the outbound stream carries the index
\* of a block that is open where the delta stands (its content_block_start
\* precedes the delta and no content_block_stop of it lies between), and its
\* delta type is that of the block's kind: text_delta in a text block,
\* input_json_delta in a tool_use block.
C33_DeltaInsideOpenBlockOfItsKind ==
    \A i \in Positions("content_block_delta") :
        \E j \in OpenStarts(SubSeq(sse, 1, i)) :
            /\ sse[j].index = sse[i].index
            /\ sse[i].delta = DeltaOf(sse[j].block)

\* C38: in the outbound event stream message_start stands before every
\* content_block_start, content_block_delta and content_block_stop, whatever
\* the upstream events are and whether or not they begin with an
\* initial-response event.
C38_MessageStartBeforeContent ==
    \A i \in DOMAIN sse :
        sse[i].type \in {"content_block_start", "content_block_delta", "content_block_stop"} =>
            \E j \in 1..(i - 1) : sse[j].type = "message_start"

\* The event a step handles
Arriving == handled'[Len(handled')]

\* The stream's events of one block
OfBlock(events, index) ==
    LET InBlock(e) == e.index = index
    IN SelectSeq(events, InBlock)

StopsOf(events, index) ==
    {i \in DOMAIN events :
        events[i].type = "content_block_stop" /\ events[i].index = index}

\* C27: a toolUseEvent with stop=true that arrives while a tool use is
\* active closes that tool-use block with exactly one content_block_stop,
\* retains the concatenation of its input fragments, and clears the tool-use
\* state, so that a following toolUseEvent with id and name opens a new
\* block with the next index.
C27_StopClosesToolBlock ==
    [][ /\ (/\ Handles("toolUseEvent")
            /\ Arriving.tool.stop
            /\ handler.current_tool_use # NoToolUse) =>
               /\ Cardinality(StopsOf(Emitted, handler.content_block_index)) = 1
               /\ Cardinality(StopsOf(sse', handler.content_block_index)) = 1
               /\ handler'.all_tool_inputs =
                      Append(handler.all_tool_inputs,
                             PartialJson(OfBlock(sse', handler.content_block_index)))
               /\ handler'.current_tool_use = NoToolUse
               /\ handler'.tool_use_id = None
               /\ handler'.tool_name = None
               /\ handler'.tool_input_buffer = <<>>
        /\ (/\ Handles("toolUseEvent")
            /\ Arriving.tool.toolUseId # None
            /\ Arriving.tool.name # None
            /\ handled # <<>>
            /\ handled[Len(handled)].type = "toolUseEvent"
            /\ handled[Len(handled)].tool.stop) =>
               \E k \in DOMAIN Emitted :
                   Emitted[k] = build_tool_use_start(
                                    Cardinality(Positions("content_block_start")),
                                    Arriving.tool.toolUseId, Arriving.tool.name) ]_vars

(***************************************************************************)
(* Properties of send_chat_request                                         *)
(***************************************************************************)
\* The call, or the iterator it returned, has ended after a response was
\* obtained.
Exited ==
    /\ resp.status_code # 0
    /\ \/ call_pc = "raised"
       \/ call_pc = "returned" /\ ~stream
       \/ safe_iter = "done"

\* C4: once the response has been obtained, every exit path (status >= 400,
\* exhaustion, error while iterating, the iterator closed or abandoned even
\* before its first item, timeout) leaves the response closed and, when the
\* client was created inside the call, the client closed.
C4_ReleasedOnEveryExit ==
    Exited => /\ resp.is_closed
              /\ close_calls.resp >= 1
              /\ local_client => close_calls.client >= 1

\* C5: on no exit path is resp.aclose() invoked more than once, and on no
\* exit path is the aclose() of a client created inside the call invoked
\* more than once.
C5_NeverClosedTwice ==
    /\ close_calls.resp <= 1
    /\ local_client => close_calls.client <= 1


\* sub occurs in s as a run of consecutive elements.
Contains(s, sub) ==
    \E i \in 0..(Len(s) - Len(sub)) : SubSeq(s, i + 1, i + Len(sub)) = sub

C39_PassedClientNeverClosed ==
    ~local_client => close_calls.client = 0

\* The call was given the caller's client and ended by the 300 s timeout:
\* the clean-up of _iter_events and of _safe_iter_events has run, the
\* response is closed and the client was not touched.
C39_Witness ==
    /\ ~local_client
    /\ exit_path = "timeout"
    /\ safe_iter = "done"
    /\ resp.is_closed
    /\ close_calls.resp >= 1
    /\ close_calls.client = 0

\* The consumer stopped reading before the stream ended: its task was
\* cancelled, or event_generator was closed, started or not.
ConsumerStopped == exit_path \in {"cancelled", "closed", "closed_unstarted"}

\* C17: when the consumer stops reading the outbound stream before it ends,
\* the upstream response is closed by the clean-up this sets off (once the
\* generators have ended the response is closed), and not by the 300 s
\* timeout.
C17_CancellationClosesResponse ==
    (ConsumerStopped /\ event_generator = "done" /\ safe_iter = "done"
         /\ iter_events \in {"none", "done"}) =>
        /\ resp.is_closed
        /\ close_calls.resp >= 1

\* C30: for any clientId and clientSecret that are non-empty and hold no
\* ":", and any non-empty refreshToken, which may hold ":",
\* _parse_bearer_token(clientId + ":" + clientSecret + ":" + refreshToken)
\* returns exactly (clientId, clientSecret, refreshToken).
C30_BearerTokenParsedBack ==
    bearer_arg # NoneStr =>
        \A i, j \in DOMAIN bearer_arg :
            (/\ 1 < i /\ i + 1 < j /\ j < Len(bearer_arg)
             /\ bearer_arg[i] = ":" /\ bearer_arg[j] = ":"
             /\ \A m \in 1..(j - 1) : m # i => bearer_arg[m] # ":") =>
                bearer_ret =
                    [client_id |-> SubSeq(bearer_arg, 1, i - 1),
                     client_secret |-> SubSeq(bearer_arg, i + 1, j - 1),
                     refresh_token |-> SubSeq(bearer_arg, j + 1, Len(bearer_arg))]

\* A token whose refresh token begins with ":" and holds another was parsed
C30_Witness ==
    /\ bearer_arg = <<"a", ":", "b", ":", ":", "a">>
    /\ bearer_ret = [client_id |-> <<"a">>, client_secret |-> <<"b">>,
                       refresh_token |-> <<":", "a">>]

(***************************************************************************)
(* Properties of the request converter                                     *)
(***************************************************************************)
\* The message list process_history was given by the last call and the
\* history it produced, when it produced one
HistoryMsgs ==
    IF converter_call = "process_history" THEN converter_arg
    ELSE IF Len(converter_arg.messages) > 1
    THEN SubSeq(converter_arg.messages, 1, Len(converter_arg.messages) - 1)
    ELSE <<>>

HasHistory ==
    /\ converter_call \in {"process_history", "convert_claude_to_amazonq_request"}
    /\ ~IsRaised(converter_ret)

History ==
    IF converter_call = "process_history" THEN converter_ret.value
    ELSE converter_ret.history

\* C18: the history produced by process_history strictly alternates between
\* userInputMessage and assistantResponseMessage entries, for every input
\* message list: no two adjacent entries are of the same kind.
C18_HistoryAlternates ==
    HasHistory =>
        \A i \in 1..(Len(History) - 1) : History[i].kind # History[i + 1].kind

RECURSIVE UserRuns(_, _)
\* The runs of consecutive user messages of a message list, messages of
\* other roles than user and assistant left aside: each run is the sequence
\* of the texts of its turns.  run is the run in progress.
UserRuns(msgs, run) ==
    IF msgs = <<>> THEN IF run = <<>> THEN <<>> ELSE <<run>>
    ELSE IF Head(msgs).role = "user"
    THEN UserRuns(Tail(msgs), Append(run, extract_text_from_content(Head(msgs).content).value))
    ELSE IF Head(msgs).role = "assistant"
    THEN (IF run = <<>> THEN <<>> ELSE <<run>>) \o UserRuns(Tail(msgs), <<>>)
    ELSE UserRuns(Tail(msgs), run)

NonEmpty(text) == text # <<>>

BlankLine == <<"\n", "\n">>

IsUserEntry(entry) == entry.kind = "userInputMessage"

C20_ConvertNeverRaises ==
    converter_call = "convert_claude_to_amazonq_request" => ~IsRaised(converter_ret)

Converted ==
    converter_call = "convert_claude_to_amazonq_request" /\ ~IsRaised(converter_ret)

\* The SYSTEM PROMPT block of a system text
SystemPromptBlock(sys_text) ==
    <<"--- SYSTEM PROMPT BEGIN ---\n">> \o sys_text \o <<"\n--- SYSTEM PROMPT END ---\n\n">>

\* C21: whenever the request carries a non-empty system prompt, the current
\* turn's content begins with the SYSTEM PROMPT block, followed by the TOOL
\* DOCUMENTATION block when some tool description was truncated, followed by
\* the turn body, for every current turn, a turn of tool results only
\* included.
C21_SystemPromptLeads ==
    (Converted /\ converter_arg.system.type = "str" /\ converter_arg.system.value # <<>>) =>
        LET content == converter_ret.currentMessage.content
            head == SystemPromptBlock(converter_arg.system.value)
            rest == SubSeq(content, Len(head) + 1, Len(content))
            truncated == \E i \in DOMAIN converter_ret.currentMessage.tools :
                             converter_ret.currentMessage.tools[i].truncated
        IN /\ StartsWith(content, head)
           /\ truncated => StartsWith(rest, <<"--- TOOL DOCUMENTATION BEGIN ---\n">>)
           /\ ~truncated =>
                  \/ rest = <<>>
                  \/ StartsWith(rest, <<"--- CONTEXT ENTRY BEGIN ---\nCurrent time: ">>)

\* name begins with prefix, letters compared without regard to case
BeginsIgnoringCase(name, prefix) ==
    /\ Len(name) >= Len(prefix)
    /\ \A i \in DOMAIN prefix :
           \/ name[i] = prefix[i]
           \/ prefix[i] \in DOMAIN UpperOf /\ name[i] = UpperOf[prefix[i]]

\* C22: map_model_name returns the 4.5 id for a model name that begins,
\* case-insensitively, with claude-sonnet-4.5 or claude-sonnet-4-5, and the
\* base id claude-sonnet-4 for every other string.
C22_ModelNameMapped ==
    converter_call = "map_model_name" =>
        converter_ret =
            IF \/ BeginsIgnoringCase(converter_arg, Sonnet45)
               \/ BeginsIgnoringCase(converter_arg, Sonnet4Dash5)
            THEN PyStr(Sonnet45) ELSE PyStr(Sonnet4)

\* A name in mixed case with a date after it was mapped to the 4.5 id
C22_Witness ==
    /\ converter_call = "map_model_name"
    /\ converter_arg = Uppercased(Sonnet4Dash5, {1, 8}) \o <<"-", "2">>
    /\ converter_ret = PyStr(Sonnet45)

\* The toolUses entries of a history, in order
AllToolUses(history) ==
    Flatten([i \in DOMAIN history |->
                IF history[i].kind = "assistantResponseMessage" THEN history[i].toolUses
                ELSE <<>>])

\* The ids of the tool_use blocks of the assistant messages of a list
ToolUseIds(msgs) ==
    {tid \in UNION {{DictGet(msgs[i].content.value[k], "id", PyNone) :
                        k \in {k \in DOMAIN msgs[i].content.value :
                                  IsBlock(msgs[i].content.value[k], "tool_use")}} :
                    i \in {i \in DOMAIN msgs : /\ msgs[i].role = "assistant"
                                               /\ msgs[i].content.type = "list"}} :
        PyBool(tid)}

\* C28: across the whole history produced by process_history each toolUseId
\* appears in at most one toolUses entry: a tool_use block whose id was
\* emitted by an earlier assistant message, or earlier in the same message,
\* is omitted, and every id of the source is emitted.
C28_ToolUseIdsOnce ==
    HasHistory =>
        LET uses == AllToolUses(History)
        IN /\ \A i, j \in DOMAIN uses : i # j => uses[i].toolUseId # uses[j].toolUseId
           /\ {uses[i].toolUseId : i \in DOMAIN uses} = ToolUseIds(HistoryMsgs)

\* Two assistant messages held the same tool_use blocks, one id twice in
\* each: the first entry has the two ids once, the second has none
C28_Witness ==
    /\ converter_call = "process_history"
    /\ Len(converter_arg) = 2
    /\ converter_arg[1] = converter_arg[2]
    /\ ~IsRaised(converter_ret)
    /\ Len(converter_ret.value) = 2
    /\ Len(converter_ret.value[1].toolUses) = 2
    /\ converter_ret.value[2].toolUses = <<>>

RECURSIVE UserTurnRuns(_, _)
\* The runs of consecutive user messages of a message list, as UserRuns
\* takes them, each run the sequence of its messages
UserTurnRuns(msgs, run) ==
    IF msgs = <<>> THEN IF run = <<>> THEN <<>> ELSE <<run>>
    ELSE IF Head(msgs).role = "user"
    THEN UserTurnRuns(Tail(msgs), Append(run, Head(msgs)))
    ELSE IF Head(msgs).role = "assistant"
    THEN (IF run = <<>> THEN <<>> ELSE <<run>>) \o UserTurnRuns(Tail(msgs), <<>>)
    ELSE UserTurnRuns(Tail(msgs), run)

\* The images of one user turn
TurnImages(msg) ==
    LET images == extract_images_from_content(msg.content)
    IN IF images.type = "list" THEN images.value ELSE <<>>

\* C29: when k consecutive user history turns are merged, the merged turn
\* carries exactly the images of the last two of those k turns, in order,
\* whether or not those two turns have images; the images of every earlier
\* turn are dropped.
C29_ImagesOfLastTwoTurns ==
    HasHistory =>
        LET runs == UserTurnRuns(HistoryMsgs, <<>>)
            entries == SelectSeq(History, IsUserEntry)
        IN \A k \in DOMAIN entries :
               LET last_two == SubSeq(runs[k], Max(1, Len(runs[k]) - 1), Len(runs[k]))
               IN entries[k].images =
                      Flatten([i \in DOMAIN last_two |-> TurnImages(last_two[i])])

\* The tool results of one user turn, as the first pass of process_history
\* collects them
TurnToolResults(msg) ==
    IF msg.content.type = "list" THEN ToolResults(msg.content.value, <<>>).value
    ELSE <<>>

\* C37: merging consecutive user history turns loses no tool result: the
\* toolResults of the merged history entry hold an entry for the tool_use_id
\* of every tool result of every user turn that was merged into it.
C37_MergeKeepsToolResults ==
    HasHistory =>
        LET runs == UserTurnRuns(HistoryMsgs, <<>>)
            entries == SelectSeq(History, IsUserEntry)
        IN \A k \in DOMAIN entries :
               \A t \in DOMAIN runs[k] :
                   \A r \in DOMAIN TurnToolResults(runs[k][t]) :
                       \E j \in DOMAIN entries[k].toolResults :
                           entries[k].toolResults[j].toolUseId =
                               TurnToolResults(runs[k][t])[r].toolUseId

(***************************************************************************)
(* Properties of the credential cache                                      *)
(***************************************************************************)
\* The workers whose auth_middleware call awaits its token-refresh response.
Refreshing == {w \in Workers : req[w].pc = "refreshing"}

\* C6: concurrent auth_middleware calls that miss the cache for the same
\* secret (the same hash key) never have two token-refresh calls for that key
\* in flight at the same time.
C6_AtMostOneRefreshInFlight ==
    \A w1, w2 \in Refreshing :
        sha256(req[w1].token) = sha256(req[w2].token) => w1 = w2

\* C9: with the cache holding an entry for a secret and no step of a
\* refresh_all_tokens sweep in between, two successive auth_middleware calls
\* with that secret return the same access token, and neither issues a
\* token-refresh call.
C9_WarmHitsAgree ==
    /\ \A t \in DOMAIN hits : Len(hits[t]) = 2 => hits[t][1] = hits[t][2]
    /\ \A w \in Workers : req[w].hit => req[w].refreshes = 0

\* clientId:clientSecret:refreshToken with the three parts non-empty; the
\* refresh token is all that follows the second colon.
ThreeNonEmptyParts(secret) ==
    \E i, j \in DOMAIN secret :
        /\ 1 < i /\ i + 1 < j /\ j < Len(secret)
        /\ secret[i] = ":" /\ secret[j] = ":"
        /\ \A m \in 1..(j - 1) : m # i => secret[m] # ":"

\* A step in which an auth_middleware call starts and ends at once, rejected.
Rejected == started' = started + 1 /\ req' = req /\ sweep' = sweep

\* C10: a secret that is not cached and does not parse into three non-empty
\* parts is rejected with 401: no request is ever in progress with such a
\* secret, and the call that rejects it issues no token-refresh call, makes no
\* upstream chat call and leaves the credential cache as it was.
C10_UnparseableSecretRejected ==
    [][ /\ \A w \in Workers :
              req'[w].pc # "idle" => ThreeNonEmptyParts(req'[w].token)
        /\ Rejected =>
              /\ outcome'.status = 401
              /\ outcome'.refreshes = 0
              /\ outcome'.upstream = 0
              /\ TOKEN_MAP' = TOKEN_MAP
              /\ oidc_calls' = oidc_calls
        /\ (Truthy(outcome'.token) /\ ~ThreeNonEmptyParts(outcome'.token)) =>
              /\ outcome'.status = 401
              /\ outcome'.refreshes = 0
              /\ outcome'.upstream = 0 ]_vars

\* A secret with two parts only was rejected while the cache held an entry.
C10_Witness ==
    /\ outcome = Outcome(<<"a", ":", "b">>, 401, 0, 0)
    /\ DOMAIN TOKEN_MAP # {}


\* A step in which the auth_middleware call of w ends with its refresh failed.
RefreshFailed(w) == req[w].pc = "refreshing" /\ req'[w].pc = "idle"

\* A step in which the auth_middleware call of w ends with its refresh done.
RefreshDone(w) == req[w].pc = "refreshing" /\ req'[w].pc = "authed"

\* C11: an entry is created only by a refresh that succeeded; a call whose
\* refresh fails ends with 401, no upstream call, and the cache as it was;
\* and a call with a secret that has no entry issues a refresh call (again).
C11_EntryOnlyBySuccessfulRefresh ==
    [][ /\ \A w \in Workers : RefreshFailed(w) =>
              /\ outcome' = Outcome(req[w].token, 401, 1, 0)
              /\ TOKEN_MAP' = TOKEN_MAP
        /\ \A k \in DOMAIN TOKEN_MAP' \ DOMAIN TOKEN_MAP :
              \E w \in Workers :
                  /\ RefreshDone(w)
                  /\ k = sha256(req[w].token)
                  /\ TOKEN_MAP'[k].accessToken = Minted(req[w].call)
        /\ \A w \in Workers :
              (req[w].pc = "idle" /\ req'[w].pc # "idle"
                   /\ sha256(req'[w].token) \notin DOMAIN TOKEN_MAP) =>
                  /\ req'[w].pc = "refreshing"
                  /\ oidc_calls' = oidc_calls + 1
                  /\ req'[w].call = oidc_calls' ]_vars

\* The refresh for a:b:c failed with 401, no entry was stored, and a call
\* with the same secret awaits a refresh that was issued after the first.
C11_Witness ==
    /\ outcome = Outcome(<<"a", ":", "b", ":", "c">>, 401, 1, 0)
    /\ sha256(<<"a", ":", "b", ":", "c">>) \notin DOMAIN TOKEN_MAP
    /\ \E w \in Workers :
          /\ req[w].pc = "refreshing"
          /\ req[w].token = <<"a", ":", "b", ":", "c">>
          /\ req[w].call = 2
    /\ \A w \in Workers : req[w].pc # "idle" => req[w].call = 2

\* The hash keys of the entries a sweep took when it started
SweepKeys(sw) == {sw.items[i].hash_key : i \in DOMAIN sw.items}

\* C12: refresh_all_tokens takes every entry that is in the cache when it
\* starts and issues a refresh call for each, one after the other, whether
\* the call before succeeded or failed; a call that fails leaves the entry's
\* accessToken and lastRefresh (the whole cache) as they were.
C12_SweepAttemptsEveryEntry ==
    [][ /\ (sweep.pc = "idle" /\ sweep'.pc = "refreshing") =>
              /\ SweepKeys(sweep') = DOMAIN TOKEN_MAP
              /\ Len(sweep'.items) = Cardinality(DOMAIN TOKEN_MAP)
              /\ sweep'.i = 1
              /\ oidc_calls' = oidc_calls + 1
        /\ (sweep.pc = "refreshing" /\ sweep' # sweep) =>
              LET hash_key == sweep.items[sweep.i].hash_key
              IN /\ IF sweep.i < Len(sweep.items)
                    THEN /\ sweep'.pc = "refreshing"
                         /\ sweep'.i = sweep.i + 1
                         /\ sweep'.items = sweep.items
                         /\ oidc_calls' = oidc_calls + 1
                    ELSE sweep'.pc = "idle"
                 /\ \/ TOKEN_MAP' = TOKEN_MAP
                    \/ /\ TOKEN_MAP'[hash_key].accessToken = Minted(sweep.call)
                       /\ \A k \in DOMAIN TOKEN_MAP \ {hash_key} :
                              TOKEN_MAP'[k] = TOKEN_MAP[k] ]_vars

\* A sweep over two entries: the refresh of the first failed, the entry is
\* as the sweep found it, and the refresh of the second was issued.
C12_Witness ==
    /\ sweep.pc = "refreshing"
    /\ Len(sweep.items) = 2
    /\ sweep.i = 2
    /\ \A w \in Workers : req[w].pc = "idle"
    /\ TOKEN_MAP[sweep.items[1].hash_key] = sweep.items[1].token_data

\* A step of a sweep that resumes with a refresh that failed.
SweepRefreshFailed ==
    /\ sweep.pc = "refreshing"
    /\ sweep' # sweep
    /\ sweep.items[sweep.i].hash_key \in DOMAIN TOKEN_MAP' =>
           TOKEN_MAP'[sweep.items[sweep.i].hash_key].accessToken # Minted(sweep.call)

\* C32: the set of keys of the credential cache only grows: no step of an
\* auth_middleware call or of a refresh_all_tokens sweep removes an entry,
\* and a sweep refresh that fails leaves the entry it was refreshing in the
\* cache with its access token and credentials as they were.
C32_CacheKeysOnlyGrow ==
    [][ /\ DOMAIN TOKEN_MAP \subseteq DOMAIN TOKEN_MAP'
        /\ \A k \in DOMAIN TOKEN_MAP \cap DOMAIN TOKEN_MAP' :
              /\ Truthy(TOKEN_MAP'[k].accessToken)
              /\ EntryCreds(TOKEN_MAP'[k]) = EntryCreds(TOKEN_MAP[k])
        /\ SweepRefreshFailed =>
              LET hash_key == sweep.items[sweep.i].hash_key
              IN /\ hash_key \in DOMAIN TOKEN_MAP'
                 /\ TOKEN_MAP'[hash_key] = TOKEN_MAP[hash_key] ]_vars

\* The cache grew to two entries, and the sweep's refresh of the first
\* failed: both keys are there and the first entry holds the access token
\* the sweep found.
C32_Witness ==
    /\ Cardinality(DOMAIN TOKEN_MAP) = 2
    /\ sweep.pc = "refreshing"
    /\ sweep.i = 2
    /\ SweepKeys(sweep) = DOMAIN TOKEN_MAP
    /\ TOKEN_MAP[sweep.items[1].hash_key].accessToken =
           sweep.items[1].token_data.accessToken

\* The number of the token-refresh call that returned an access token: calls
\* are numbered in the order they were issued.
IssuedAs(access_token) == access_token[2]

\* C35: under any interleaving of cache-miss refreshes and sweeps for the
\* same key, the access token of an entry is never replaced by the result of
\* a refresh call that was issued before the call whose token the entry
\* holds.
C35_NewerTokenNeverOverwritten ==
    [][ \A k \in DOMAIN TOKEN_MAP \cap DOMAIN TOKEN_MAP' :
            IssuedAs(TOKEN_MAP'[k].accessToken) >= IssuedAs(TOKEN_MAP[k].accessToken) ]_vars

\* The secret a key of the cache is the hash of
SecretOf(hash_key) == hash_key[2]

\* The credentials the token-refresh call that returned an access token was
\* sent with
ObtainedWith(access_token) == oidc_requests[IssuedAs(access_token)]

\* C36: in every reachable state, under any interleaving of auth_middleware
\* calls and sweeps, each entry's clientId, clientSecret and refreshToken are
\* the three fields parsed from the secret whose hash is the entry's key, its
\* accessToken was returned by a refresh call sent with exactly these
\* fields, and the access token a caller is handed was obtained with the
\* credentials of the caller's own secret.
C36_EntriesHoldTheirSecretsCredentials ==
    /\ \A k \in DOMAIN TOKEN_MAP :
          /\ EntryCreds(TOKEN_MAP[k]) = parse_bearer_token(SecretOf(k))
          /\ IssuedAs(TOKEN_MAP[k].accessToken) \in 1..oidc_calls
          /\ ObtainedWith(TOKEN_MAP[k].accessToken) = parse_bearer_token(SecretOf(k))
    /\ \A w \in Workers :
          req[w].pc = "authed" =>
              /\ IssuedAs(req[w].accessToken) \in 1..oidc_calls
              /\ ObtainedWith(req[w].accessToken) = parse_bearer_token(req[w].token)

\* The cache holds two entries, a sweep has refreshed the second of them
\* with the fourth refresh call, and a caller was handed that token from the
\* cache.
C36_Witness ==
    /\ Cardinality(DOMAIN TOKEN_MAP) = 2
    /\ \E w \in Workers :
          /\ req[w].pc = "authed"
          /\ req[w].hit
          /\ IssuedAs(req[w].accessToken) = 4
          /\ TOKEN_MAP[sha256(req[w].token)].accessToken = req[w].accessToken

(***************************************************************************)
(* Properties of the frame decoder                                         *)
(***************************************************************************)
\* The (headers, payload) pairs of a list of messages
PairsOf(msgs) == [i \in DOMAIN msgs |-> Pair(msgs[i].headers, msgs[i].payload)]

\* C7 as stated: the frames of any list of (headers, payload) pairs, delivered
\* to parse_stream in chunks cut anywhere, are decoded into exactly these
\* pairs, in their order.
C7_RoundTrip ==
    (origin.encoded /\ parser_pc = "done") => PairsOf(messages) = origin.pairs

\* What a payload is read back as: empty bytes as None, bytes that are the
\* text of a JSON value as that value, any other payload as itself.
ReadBack(payload) ==
    IF payload.type = "bytes" /\ payload.value = <<>> THEN PyNone
    ELSE IF payload.type = "bytes" /\ IsJsonText(payload.value)
         THEN JsonLoads(payload.value)
         ELSE payload

ReadBackAll(pairs) ==
    [i \in DOMAIN pairs |-> Pair(pairs[i].headers, ReadBack(pairs[i].payload))]

\* C7: the frames of any list of (headers, payload) pairs, delivered to
\* parse_stream in chunks cut anywhere, are decoded into one message per
\* pair, in the order of the pairs, with the headers of the pair; the payload
\* is the pair's when it is None, a JSON value, or non-empty bytes that are
\* no JSON text, it is None for empty bytes and the parsed value for bytes
\* that are a JSON text.  While the body is read, the messages yielded are
\* the first of these.
C7_RoundTripReadBack ==
    origin.encoded =>
        /\ parser_pc # "looping"
        /\ Len(messages) <= Len(origin.pairs)
        /\ PairsOf(messages) = SubSeq(ReadBackAll(origin.pairs), 1, Len(messages))
        /\ parser_pc = "done" => Len(messages) = Len(origin.pairs)

\* Two frames were decoded to the end: one of bytes that read back as
\* another value, one with two headers and bytes that are no JSON.
C7_Witness ==
    /\ origin.encoded
    /\ parser_pc = "done"
    /\ Len(origin.pairs) = 2
    /\ origin.pairs[1] \in OddPairs
    /\ origin.pairs[2] = Pair(TwoHeaders, PyBytes(<<120, 255>>))
    /\ PairsOf(messages) = ReadBackAll(origin.pairs)

\* parse_stream fed all the bytes as one chunk
WholeFeed(bytes) == Drain(bytes, <<>>)

\* Fewer bytes than the 12 of a prelude, or than the frame's totalLength
Incomplete(buf) == Len(buf) < 12 \/ Len(buf) < U32(Slice(buf, 0, 4))

\* After any chunks, parse_stream has yielded the messages, and holds the
\* buffer, of a feed of the same bytes as one chunk; what it holds is no
\* complete frame; at the end it has yielded what a feed of the whole body
\* as one chunk yields.
SameAsWholeFeed ==
    parser_pc # "start" =>
        /\ messages = WholeFeed(delivered).messages
        /\ buffer = WholeFeed(delivered).buffer
        /\ (parser_pc = "looping") = WholeFeed(delivered).looping
        /\ parser_pc # "looping" => Incomplete(buffer)
        /\ parser_pc \in {"done", "looping"} =>
               messages = WholeFeed(delivered \o byte_stream).messages

\* The bytes cut off the buffer so far
Consumed == SubSeq(delivered, 1, Len(delivered) - Len(buffer))

\* The buffer is the end of the bytes delivered, as they were delivered, and
\* the messages yielded are those of the bytes before it.
Retained ==
    /\ Len(buffer) <= Len(delivered)
    /\ buffer = SubSeq(delivered, Len(delivered) - Len(buffer) + 1, Len(delivered))
    /\ messages = WholeFeed(Consumed).messages

\* C8: for any bytes, parse_stream fed in chunks of one byte (or of any
\* size) yields the messages of parse_stream fed the whole as one chunk, none
\* more and none less; while fewer bytes than a frame's totalLength are
\* buffered, no message is yielded for them and the bytes are kept.
C8_ChunksAsWhole == SameAsWholeFeed /\ Retained

\* After a frame that was decoded, more than the 12 bytes of the next
\* frame's prelude are buffered, and the frame is not complete.
C8_Witness ==
    /\ parser_pc = "reading"
    /\ ~origin.encoded
    /\ Len(messages) = 1
    /\ Len(buffer) > 12
    /\ byte_stream = <<>>

\* The bodies of the model that hold a malformed frame, one whose header
\* bytes are no UTF-8 or whose headers end inside an entry, next to frames
\* that are well formed
WithMalformedFrame ==
    {BadNameFrame \o GoodFrame, GoodFrame \o TruncatedHeaderFrame \o GoodFrame}

WellFormedFramesOf(body) ==
    IF body = BadNameFrame \o GoodFrame THEN <<Pair(EventHeader, PyInt(1))>>
    ELSE <<Pair(EventHeader, PyInt(1)), Pair(EventHeader, PyInt(1))>>

\* C23: a malformed frame (headers truncated inside an entry, or header
\* bytes that are no valid UTF-8) yields no message and decoding resumes at
\* the next frame: the messages yielded are those of the well-formed frames
\* of the stream, in order.
C23_MalformedFrameSkipped ==
    (parser_pc = "done" /\ delivered \in WithMalformedFrame) =>
        PairsOf(messages) = WellFormedFramesOf(delivered)

\* C34: parse_stream terminates on every finite byte stream: whatever the
\* chunks hold (a totalLength of 0 or below the 16-byte frame minimum
\* included), once the input is delivered and exhausted the decoder
\* finishes.
C34_ParseStreamTerminates == <>(parser_pc = "done")

====
